---- MODULE Spec2Model ----
(***************************************************************************)
(* PDV Camargo: the till-session and sale-settlement protocol of the three *)
(* variants of the repository, over one SQLite database shared by several  *)
(* terminals:                                                              *)
(*   web_*   src/pdv_web_full.py  (multi-store, BEGIN IMMEDIATE)           *)
(*   core_*  src/core_db.py       (called by src/web_pdv.py)               *)
(*   pdv_*   src/pdv.py           (desktop, finalizar_venda)               *)
(* Amounts are whole currency units.  A write transaction works on a       *)
(* private copy of the database (tx) that COMMIT installs and ROLLBACK     *)
(* drops; every SELECT outside a transaction reads the committed database. *)
(***************************************************************************)
EXTENDS Integers, Sequences, FiniteSets, TLC

Terminais == {"t1", "t2"}
Lojas == {1, 2}
Codigos == {"A", "B"}

\* quantity every product starts with
QtdInicial == 1
\* longest cart
MaxItens == 2
\* number of calls started in one behaviour
MaxChamadas == 2

Produtos == Lojas \X Codigos
Qtds == 1..QtdInicial
\* the opening float of every session, and the amounts an operator may declare at close
SaldoAbertura == 5
\* the store of the single-store programs (core_db.py, pdv.py)
LojaUnica == 1
SaldosIniciais == {SaldoAbertura}
SaldosInformados == {0, SaldoAbertura}

VARIABLES db, lock, tx, pc, loc, res, chamadas

vars == <<db, lock, tx, pc, loc, res, chamadas>>

Livre == "livre"
SemTx == [aberta |-> FALSE]

PrecoVenda(c) == IF c = "A" THEN 3 ELSE 5

RECURSIVE SomaSeq(_)
SomaSeq(s) == IF s = <<>> THEN 0 ELSE Head(s) + SomaSeq(Tail(s))

\* the carts: sequences of 1..MaxItens lines that ask for at most one unit more
\* than a product ever has
Linhas == [codigo : Codigos, qtd : Qtds]
QtdPedida(itens) == SomaSeq([i \in DOMAIN itens |-> itens[i].qtd])
Carrinhos ==
  {c \in UNION {[1..k -> Linhas] : k \in 1..MaxItens} : QtdPedida(c) <= QtdInicial + 1}
\* carts with at most one line per code (the dict carts of web_pdv.py and pdv.py)
CarrinhosDict == {c \in Carrinhos : \A i, j \in DOMAIN c : c[i].codigo = c[j].codigo => i = j}

Subtotal(itens) == SomaSeq([i \in DOMAIN itens |-> PrecoVenda(itens[i].codigo) * itens[i].qtd])

(***************************************************************************)
(* The database                                                            *)
(***************************************************************************)
BancoInicial ==
  [prod |-> [p \in Produtos |-> [existe |-> TRUE, nome |-> "N1", preco_custo |-> 1,
                                 preco_venda |-> PrecoVenda(p[2]), quantidade |-> QtdInicial]],
   sess |-> <<>>,
   vend |-> <<>>,
   usuarios |-> <<[username |-> "admin", role |-> "ADMIN", loja |-> 0, ativo |-> TRUE]>>]

\* the SELECT without  AND status='ABERTO': the store's last session, open or not
get_ultima_sessao(d, loja) ==
  LET todas == {s \in DOMAIN d.sess : d.sess[s].loja = loja}
  IN IF todas = {} THEN 0 ELSE CHOOSE s \in todas : \A r \in todas : r <= s

\* SELECT ... FROM caixa_sessoes WHERE loja_id=? AND status='ABERTO' ORDER BY id DESC LIMIT 1
\* (0 stands for None)
get_sessao_aberta(d, loja) ==
  LET abertas == {s \in DOMAIN d.sess : d.sess[s].loja = loja /\ d.sess[s].status = "ABERTO"}
  IN IF abertas = {} THEN 0 ELSE CHOOSE s \in abertas : \A r \in abertas : r <= s

\* opening sets the store's last session back to ABERTO when it has one
ReabrirSessao(d, loja, saldo) ==
  LET s == get_ultima_sessao(d, loja)
  IN IF s = 0
     THEN [d EXCEPT !.sess = Append(@, [loja |-> loja, status |-> "ABERTO", saldo_inicial |-> saldo,
                                        saldo_final_sistema |-> 0, saldo_final_informado |-> 0,
                                        diferenca |-> 0])]
     ELSE [d EXCEPT !.sess[s].status = "ABERTO", !.sess[s].saldo_inicial = saldo]

\* INSERT INTO caixa_sessoes (..., status, saldo_inicial, ...) VALUES (..., 'ABERTO', ?, ...)
InserirSessao(d, loja, saldo) ==
  [d EXCEPT !.sess = Append(@, [loja |-> loja, status |-> "ABERTO", saldo_inicial |-> saldo,
                                saldo_final_sistema |-> 0, saldo_final_informado |-> 0,
                                diferenca |-> 0])]

\* SELECT COALESCE(SUM(total), 0) FROM vendas_cabecalho WHERE loja_id=? AND sessao_id=? AND status='FINALIZADA'
TotalVendasSql(d, loja, sid) ==
  SomaSeq([v \in DOMAIN d.vend |->
             IF d.vend[v].loja = loja /\ d.vend[v].sessao_id = sid /\ d.vend[v].status = "FINALIZADA"
             THEN d.vend[v].total ELSE 0])

totais_sessao(d, loja, sid) ==
  LET saldo_inicial == IF sid \in DOMAIN d.sess /\ d.sess[sid].loja = loja
                       THEN d.sess[sid].saldo_inicial ELSE 0
      total_vendas == TotalVendasSql(d, loja, sid)
  IN [saldo_inicial |-> saldo_inicial, total_vendas |-> total_vendas,
      saldo_final_sistema |-> saldo_inicial + total_vendas]

\* the WHERE clause without  AND status='ABERTO'
SessaoDaLoja(d, loja, sid) ==
  sid \in DOMAIN d.sess /\ d.sess[sid].loja = loja

\* rows of caixa_sessoes and vendas_cabecalho that DELETE has removed; their ids
\* are AUTOINCREMENT and are not given out again
SessaoApagada ==
  [loja |-> 0, status |-> "APAGADA", saldo_inicial |-> 0, saldo_final_sistema |-> 0,
   saldo_final_informado |-> 0, diferenca |-> 0]

VendaApagada == [loja |-> 0, sessao_id |-> 0, total |-> 0, status |-> "APAGADA", itens |-> <<>>]

\* the row that FOREIGN KEY (sessao_id) REFERENCES caixa_sessoes(id) asks for
SessaoExiste(d, sid) == sid \in DOMAIN d.sess /\ d.sess[sid] # SessaoApagada

\* the WHERE clause without  AND loja_id = ?
SessaoAbertaQualquerLoja(d, loja, sid) ==
  sid \in DOMAIN d.sess /\ d.sess[sid].status = "ABERTO"

\* rows matched by  WHERE id = ? AND loja_id = ? AND status='ABERTO'
SessaoAbertaDaLoja(d, loja, sid) ==
  sid \in DOMAIN d.sess /\ d.sess[sid].loja = loja /\ d.sess[sid].status = "ABERTO"

\* the UPDATE storing the variance with its sign turned
UpdateFecharInvertido(d, sid, sistema, informado, diferenca) ==
  [d EXCEPT !.sess[sid] = [@ EXCEPT !.status = "FECHADO", !.saldo_final_sistema = sistema,
                                    !.saldo_final_informado = informado, !.diferenca = 0 - diferenca]]

\* the UPDATE without  id = ? AND loja_id = ?  in its WHERE clause
UpdateFecharTodas(d, sid, sistema, informado, diferenca) ==
  [d EXCEPT !.sess = [s \in DOMAIN d.sess |->
                        IF d.sess[s].status = "ABERTO"
                        THEN [d.sess[s] EXCEPT !.status = "FECHADO",
                                               !.saldo_final_sistema = sistema,
                                               !.saldo_final_informado = informado,
                                               !.diferenca = diferenca]
                        ELSE d.sess[s]]]

\* UPDATE caixa_sessoes SET status='FECHADO', saldo_final_sistema=?, ... WHERE <SessaoAbertaDaLoja>
UpdateFechar(d, sid, sistema, informado, diferenca) ==
  [d EXCEPT !.sess[sid] = [@ EXCEPT !.status = "FECHADO", !.saldo_final_sistema = sistema,
                                    !.saldo_final_informado = informado, !.diferenca = diferenca]]

\* INSERT INTO vendas_cabecalho; the new row's id is its position
InserirCabecalho(d, loja, sid, total) ==
  [d EXCEPT !.vend = Append(@, [loja |-> loja, sessao_id |-> sid, total |-> total,
                                status |-> "FINALIZADA", itens |-> <<>>])]

\* INSERT INTO vendas_itens (..., venda_id, codigo, ..., qtd, ...)
InserirItem(d, venda_id, it) ==
  [d EXCEPT !.vend[venda_id].itens = Append(@, it)]

\* the UPDATE without its guard  AND quantidade >= ?
LinhaSemGuarda(d, loja, codigo, qtd) ==
  d.prod[<<loja, codigo>>].existe

\* rows matched by  WHERE loja_id = ? AND codigo = ? AND quantidade >= ?
LinhaComEstoque(d, loja, codigo, qtd) ==
  d.prod[<<loja, codigo>>].existe /\ d.prod[<<loja, codigo>>].quantidade >= qtd

\* UPDATE produtos SET quantidade = quantidade - ? WHERE <LinhaComEstoque>
UpdateBaixa(d, loja, codigo, qtd) ==
  [d EXCEPT !.prod[<<loja, codigo>>].quantidade = @ - qtd]

(***************************************************************************)
(* Connections and transactions                                            *)
(***************************************************************************)
CacheVazio == [c \in Codigos |-> [existe |-> FALSE, quantidade |-> 0]]

LocVazio ==
  [op |-> "nenhuma", loja |-> 0, sid |-> 0, itens |-> <<>>, total |-> 0,
   baixar |-> FALSE, saldo |-> 0, sistema |-> 0, i |-> 0, atual |-> 0, cache |-> CacheVazio]

\* what a call left behind: its result and, for "ESTOQUE", the cart line it names
ResVazio == [op |-> "nenhuma", r |-> "nenhum", loja |-> 0, sid |-> 0, linha |-> 0]

\* The database file outlives the program: a terminal starts on a database that
\* earlier runs left with no till session, or with the till of store 1 open.
Init ==
  /\ db \in {BancoInicial, InserirSessao(BancoInicial, LojaUnica, SaldoAbertura)}
  /\ lock = Livre
  /\ tx = [t \in Terminais |-> SemTx]
  /\ pc = [t \in Terminais |-> "ocioso"]
  /\ loc = [t \in Terminais |-> LocVazio]
  /\ res = [t \in Terminais |-> ResVazio]
  /\ chamadas = 0

\* the call of terminal t returns or raises with result r
Retorna(t, r, l) ==
  /\ pc' = [pc EXCEPT ![t] = "ocioso"]
  /\ res' = [res EXCEPT ![t] = [op |-> l.op, r |-> r, loja |-> l.loja, sid |-> l.sid,
                                linha |-> IF r = "ESTOQUE" THEN l.i ELSE 0]]
  /\ loc' = [loc EXCEPT ![t] = LocVazio]

\* the call goes on at label p with locals l
Segue(t, p, l) ==
  /\ pc' = [pc EXCEPT ![t] = p]
  /\ loc' = [loc EXCEPT ![t] = l]
  /\ UNCHANGED res

\* a new call starts on an idle terminal
Chama(t) ==
  /\ pc[t] = "ocioso"
  /\ chamadas < MaxChamadas
  /\ chamadas' = chamadas + 1

\* BEGIN IMMEDIATE takes the write lock; d is the transaction's copy after the
\* statements that follow it in the same step
Begin(t, d) ==
  /\ lock = Livre
  /\ lock' = t
  /\ tx' = [tx EXCEPT ![t] = [aberta |-> TRUE, d |-> d]]
  /\ UNCHANGED db

\* the write lock is another connection's and the busy timeout expires
Ocupado(t) == lock \notin {Livre, t}

\* the with block of a failing call commits what the transaction wrote so far
RollbackParcial(t, d) ==
  /\ db' = d
  /\ lock' = Livre
  /\ tx' = [tx EXCEPT ![t] = SemTx]

\* a raise that leaves the transaction and its lock as they are
SemRollback(t, d) ==
  /\ db' = db
  /\ lock' = lock
  /\ tx' = tx

\* conn.rollback(): the transaction's copy d is dropped, the committed database
\* stays as it is
Rollback(t, d) ==
  /\ db' = db
  /\ lock' = Livre
  /\ tx' = [tx EXCEPT ![t] = SemTx]

\* conn.commit(): the transaction's copy d becomes the committed database
Commit(t, d) ==
  /\ db' = d
  /\ lock' = Livre
  /\ tx' = [tx EXCEPT ![t] = SemTx]

\* sqlite3.OperationalError "database is locked" before anything was written
ErroLocked(t) ==
  /\ Ocupado(t)
  /\ Retorna(t, "LOCKED", loc[t])
  /\ UNCHANGED <<db, lock, tx, chamadas>>

\* a transaction that python opens before its first INSERT/UPDATE and that the
\* same function commits: one step on the committed database
Autocommit(d) ==
  /\ lock = Livre
  /\ db' = d
  /\ UNCHANGED <<lock, tx>>

\* session ids a caller may pass: every row of the table and one that does not exist
Sids == 1..(Len(db.sess) + 1)

(***************************************************************************)
(* src/pdv_web_full.py: abrir_caixa_db                                     *)
(***************************************************************************)
web_abrir_caixa_db(t) ==
  /\ Chama(t)
  /\ \E loja \in Lojas, saldo \in SaldosIniciais :
       LET l == [LocVazio EXCEPT !.op = "abrir", !.loja = loja, !.saldo = saldo]
           atual == get_sessao_aberta(db, loja)
       IN IF atual # 0
          THEN Retorna(t, "JA_ABERTO", [l EXCEPT !.sid = atual])
          ELSE Segue(t, "web_abrir_begin", l)
  /\ UNCHANGED <<db, lock, tx>>

web_abrir_begin(t) ==
  /\ pc[t] = "web_abrir_begin"
  /\ \/ /\ Begin(t, InserirSessao(db, loc[t].loja, loc[t].saldo))
        /\ Segue(t, "web_abrir_commit", [loc[t] EXCEPT !.sid = Len(db.sess) + 1])
        /\ UNCHANGED chamadas
     \/ ErroLocked(t)

web_abrir_commit(t) ==
  /\ pc[t] = "web_abrir_commit"
  /\ Commit(t, tx[t].d)
  /\ Retorna(t, "OK", loc[t])
  /\ UNCHANGED chamadas

(***************************************************************************)
(* src/pdv_web_full.py: fechar_caixa_db                                    *)
(***************************************************************************)
web_fechar_caixa_db(t) ==
  /\ Chama(t)
  /\ \E loja \in Lojas, sid \in Sids, informado \in SaldosInformados :
       Segue(t, "web_fechar_begin",
             [LocVazio EXCEPT !.op = "fechar", !.loja = loja, !.sid = sid, !.saldo = informado,
                              !.sistema = totais_sessao(db, loja, sid).saldo_final_sistema])
  /\ UNCHANGED <<db, lock, tx>>

web_fechar_begin(t) ==
  /\ pc[t] = "web_fechar_begin"
  /\ \/ /\ Begin(t, db)
        /\ Segue(t, "web_fechar_update", loc[t])
        /\ UNCHANGED chamadas
     \/ ErroLocked(t)

\* the guarded UPDATE, then conn.commit(), or conn.rollback() and raise on rowcount 0
web_fechar_update(t) ==
  /\ pc[t] = "web_fechar_update"
  /\ IF SessaoAbertaDaLoja(tx[t].d, loc[t].loja, loc[t].sid)
     THEN /\ Commit(t, UpdateFechar(tx[t].d, loc[t].sid, loc[t].sistema, loc[t].saldo,
                                    loc[t].saldo - loc[t].sistema))
          /\ Retorna(t, "OK", loc[t])
     ELSE /\ Rollback(t, tx[t].d)
          /\ Retorna(t, "NAO_ABERTA", loc[t])
  /\ UNCHANGED chamadas

(***************************************************************************)
(* src/pdv_web_full.py: registrar_venda_completa_db                        *)
(***************************************************************************)
\* for it in itens: the line's INSERT and, when asked, its guarded UPDATE;
\* stops at the first UPDATE with rowcount 0
RECURSIVE web_itens(_, _, _, _, _)
web_itens(d, loja, venda_id, itens, baixar_estoque) ==
  IF itens = <<>>
  THEN [ok |-> TRUE, d |-> d]
  ELSE LET it == Head(itens)
           d1 == InserirItem(d, venda_id, it)
       IN IF baixar_estoque /\ it.qtd > 0
          THEN IF LinhaComEstoque(d1, loja, it.codigo, it.qtd)
               THEN web_itens(UpdateBaixa(d1, loja, it.codigo, it.qtd), loja, venda_id,
                              Tail(itens), baixar_estoque)
               ELSE [ok |-> FALSE, d |-> d1]
          ELSE web_itens(d1, loja, venda_id, Tail(itens), baixar_estoque)

\* the call; of its arguments the store and the session are read first
web_registrar_venda_completa_db(t, baixar_estoque) ==
  /\ Chama(t)
  /\ \E loja \in Lojas, sid \in Sids :
       Segue(t, "web_venda_select",
             [LocVazio EXCEPT !.op = "venda", !.loja = loja, !.sid = sid,
                              !.baixar = baixar_estoque])
  /\ UNCHANGED <<db, lock, tx>>

\* SELECT id FROM caixa_sessoes WHERE id = ? AND loja_id = ? AND status='ABERTO';
\* the cart and the total the caller passed are drawn here, where the function
\* goes on to read them
web_venda_select(t) ==
  /\ pc[t] = "web_venda_select"
  /\ IF ~SessaoAbertaDaLoja(db, loc[t].loja, loc[t].sid)
     THEN Retorna(t, "SESSAO", loc[t])
     ELSE \E itens \in Carrinhos :
            Segue(t, "web_venda_begin",
                  [loc[t] EXCEPT !.itens = itens, !.total = Subtotal(itens)])
  /\ UNCHANGED <<db, lock, tx, chamadas>>

\* BEGIN IMMEDIATE and the INSERT of the header, which fails on its foreign key
\* when the session's row has been deleted since the SELECT
web_venda_begin(t) ==
  /\ pc[t] = "web_venda_begin"
  /\ \/ /\ SessaoExiste(db, loc[t].sid)
        /\ Begin(t, InserirCabecalho(db, loc[t].loja, loc[t].sid, loc[t].total))
        /\ Segue(t, "web_venda_itens", loc[t])
        /\ UNCHANGED chamadas
     \/ /\ ~SessaoExiste(db, loc[t].sid)
        /\ lock = Livre
        /\ Retorna(t, "FK", loc[t])
        /\ UNCHANGED <<db, lock, tx, chamadas>>
     \/ ErroLocked(t)

\* the loop over the lines, then conn.commit(), or conn.rollback() and raise
web_venda_itens(t) ==
  /\ pc[t] = "web_venda_itens"
  /\ LET r == web_itens(tx[t].d, loc[t].loja, Len(tx[t].d.vend), loc[t].itens, loc[t].baixar)
     IN IF r.ok
        THEN /\ Commit(t, r.d)
             /\ Retorna(t, "OK", loc[t])
        ELSE /\ Rollback(t, r.d)
             /\ Retorna(t, "ESTOQUE", [loc[t] EXCEPT !.i = Len(r.d.vend[Len(r.d.vend)].itens)])
  /\ UNCHANGED chamadas

NextW ==
  \E t \in Terminais :
    \/ web_abrir_caixa_db(t)
    \/ web_abrir_begin(t)
    \/ web_abrir_commit(t)
    \/ web_fechar_caixa_db(t)
    \/ web_fechar_begin(t)
    \/ web_fechar_update(t)
    \/ web_registrar_venda_completa_db(t, TRUE)
    \/ web_venda_select(t)
    \/ web_venda_begin(t)
    \/ web_venda_itens(t)

SpecW == Init /\ [][NextW]_vars

\* the call that starts is for the one store both terminals work in
NaLojaUnica(t) ==
  IF pc'[t] = "ocioso" THEN res'[t].loja = LojaUnica ELSE loc'[t].loja = LojaUnica

\* the cart that is settled has one line
UmaLinha(t) == pc'[t] = "web_venda_begin" => Len(loc'[t].itens) = 1

\* the steps of a call that has started: the thread of terminal t runs on, and a
\* BEGIN IMMEDIATE that finds the lock taken ends with the busy error
Continua(t) ==
  \/ web_abrir_begin(t)
  \/ web_abrir_commit(t)
  \/ web_fechar_begin(t)
  \/ web_fechar_update(t)
  \/ web_venda_select(t) /\ UmaLinha(t)
  \/ web_venda_begin(t)
  \/ web_venda_itens(t)

\* the calls of NextW made by two terminals of one store, with carts of one line
NextWJusto ==
  \E t \in Terminais :
    \/ web_abrir_caixa_db(t) /\ NaLojaUnica(t)
    \/ web_fechar_caixa_db(t) /\ NaLojaUnica(t)
    \/ web_registrar_venda_completa_db(t, TRUE) /\ NaLojaUnica(t)
    \/ web_venda_select(t) /\ UmaLinha(t)
    \/ web_abrir_begin(t)
    \/ web_abrir_commit(t)
    \/ web_fechar_begin(t)
    \/ web_fechar_update(t)
    \/ web_venda_begin(t)
    \/ web_venda_itens(t)

\* every terminal's thread is scheduled fairly
SpecWJusto == Init /\ [][NextWJusto]_vars /\ \A t \in Terminais : WF_vars(Continua(t))

\* settlements alone: terminal t1 runs the FINALIZAR handler, which passes
\* baixar_estoque=True, and the other terminal a caller that leaves the default
PassaBaixar(t) == t = "t1"

NextWOpt ==
  \E t \in Terminais :
    \/ web_registrar_venda_completa_db(t, PassaBaixar(t))
    \/ web_venda_select(t)
    \/ web_venda_begin(t)
    \/ web_venda_itens(t)

SpecWOpt == Init /\ [][NextWOpt]_vars

\* the till alone: the sidebar of pdv_web_full.py opens and closes sessions
NextWCaixa ==
  \E t \in Terminais :
    \/ web_abrir_caixa_db(t)
    \/ web_abrir_begin(t)
    \/ web_abrir_commit(t)
    \/ web_fechar_caixa_db(t)
    \/ web_fechar_begin(t)
    \/ web_fechar_update(t)

SpecWCaixa == Init /\ [][NextWCaixa]_vars

\* the behaviour starts when one terminal's abrir_caixa_db has just found no open
\* session of the store and the other terminal is idle
InitAbrindo ==
  /\ db = BancoInicial
  /\ lock = Livre
  /\ tx = [t \in Terminais |-> SemTx]
  /\ \E u \in Terminais :
       /\ pc = [t \in Terminais |-> IF t = u THEN "web_abrir_begin" ELSE "ocioso"]
       /\ loc = [t \in Terminais |->
                   IF t = u THEN [LocVazio EXCEPT !.op = "abrir", !.loja = LojaUnica,
                                                  !.saldo = SaldoAbertura]
                   ELSE LocVazio]
  /\ res = [t \in Terminais |-> ResVazio]
  /\ chamadas = 0

SpecWAbrindo == InitAbrindo /\ [][NextWCaixa]_vars

(***************************************************************************)
(* src/core_db.py (single store; every row is of store LojaUnica)          *)
(***************************************************************************)
core_abrir_caixa(t) ==
  /\ Chama(t)
  /\ \E saldo \in SaldosIniciais :
       LET l == [LocVazio EXCEPT !.op = "abrir", !.loja = LojaUnica, !.saldo = saldo]
           atual == get_sessao_aberta(db, LojaUnica)
       IN IF atual # 0
          THEN Retorna(t, "JA_ABERTO", [l EXCEPT !.sid = atual])
          ELSE Segue(t, "core_abrir_insert", l)
  /\ UNCHANGED <<db, lock, tx>>

\* the INSERT and conn.commit(); returns cur.lastrowid
core_abrir_insert(t) ==
  /\ pc[t] = "core_abrir_insert"
  /\ Autocommit(InserirSessao(db, LojaUnica, loc[t].saldo))
  /\ Retorna(t, "OK", [loc[t] EXCEPT !.sid = Len(db.sess) + 1])
  /\ UNCHANGED chamadas

core_fechar_caixa(t) ==
  /\ Chama(t)
  /\ \E sid \in Sids, informado \in SaldosInformados :
       Segue(t, "core_fechar_update",
             [LocVazio EXCEPT !.op = "fechar", !.loja = LojaUnica, !.sid = sid, !.saldo = informado,
                              !.sistema = totais_sessao(db, LojaUnica, sid).saldo_final_sistema])
  /\ UNCHANGED <<db, lock, tx>>

\* UPDATE ... WHERE id = ? AND status='ABERTO', then conn.commit(), or raise on rowcount 0
core_fechar_update(t) ==
  /\ pc[t] = "core_fechar_update"
  /\ IF SessaoAbertaDaLoja(db, LojaUnica, loc[t].sid)
     THEN /\ Autocommit(UpdateFechar(db, loc[t].sid, loc[t].sistema, loc[t].saldo,
                                     loc[t].saldo - loc[t].sistema))
          /\ Retorna(t, "OK", loc[t])
     ELSE /\ UNCHANGED <<db, lock, tx>>
          /\ Retorna(t, "NAO_ABERTA", loc[t])
  /\ UNCHANGED chamadas

\* the header and the lines of one sale: INSERT INTO vendas_cabecalho, then one
\* INSERT INTO vendas_itens per line
RECURSIVE InserirItens(_, _, _)
InserirItens(d, venda_id, itens) ==
  IF itens = <<>> THEN d
  ELSE InserirItens(InserirItem(d, venda_id, Head(itens)), venda_id, Tail(itens))

InserirVenda(d, loja, sid, total, itens) ==
  InserirItens(InserirCabecalho(d, loja, sid, total), Len(d.vend) + 1, itens)

\* FOREIGN KEY (sessao_id) REFERENCES caixa_sessoes(id), with PRAGMA foreign_keys = ON
FkSessao(d, sid) == sid \in DOMAIN d.sess

\* registrar_venda up to its conn.commit(): the sale and its lines
core_registrar_venda(t) ==
  /\ Chama(t)
  /\ \E sid \in Sids, itens \in CarrinhosDict :
       LET l == [LocVazio EXCEPT !.op = "venda", !.loja = LojaUnica, !.sid = sid, !.itens = itens,
                                 !.total = Subtotal(itens), !.i = 1]
       IN IF FkSessao(db, sid)
          THEN /\ Autocommit(InserirVenda(db, LojaUnica, sid, l.total, itens))
               /\ Segue(t, "core_baixar_select", l)
          ELSE /\ UNCHANGED <<db, lock, tx>>
               /\ Retorna(t, "FK", l)

\* baixar_estoque of line i: SELECT quantidade FROM produtos WHERE codigo=?
core_baixar_select(t) ==
  /\ pc[t] = "core_baixar_select"
  /\ LET it == loc[t].itens[loc[t].i]
         row == db.prod[<<LojaUnica, it.codigo>>]
     IN IF ~row.existe
        THEN Retorna(t, "NAO_ENCONTRADO", loc[t])
        ELSE IF it.qtd > row.quantidade
             THEN Retorna(t, "ESTOQUE", loc[t])
             ELSE Segue(t, "core_baixar_update", [loc[t] EXCEPT !.atual = row.quantidade])
  /\ UNCHANGED <<db, lock, tx, chamadas>>

\* UPDATE produtos SET quantidade=? WHERE codigo=?  with the value computed from atual
UpdateQuantidade(d, loja, codigo, quantidade) ==
  IF d.prod[<<loja, codigo>>].existe
  THEN [d EXCEPT !.prod[<<loja, codigo>>].quantidade = quantidade]
  ELSE d

\* baixar_estoque of line i: the UPDATE and conn.commit(); then the next line or return
core_baixar_update(t) ==
  /\ pc[t] = "core_baixar_update"
  /\ LET it == loc[t].itens[loc[t].i]
     IN /\ Autocommit(UpdateQuantidade(db, LojaUnica, it.codigo, loc[t].atual - it.qtd))
        /\ IF loc[t].i < Len(loc[t].itens)
           THEN Segue(t, "core_baixar_select", [loc[t] EXCEPT !.i = @ + 1])
           ELSE Retorna(t, "OK", loc[t])
  /\ UNCHANGED chamadas

NextK ==
  \E t \in Terminais :
    \/ core_abrir_caixa(t)
    \/ core_abrir_insert(t)
    \/ core_fechar_caixa(t)
    \/ core_fechar_update(t)
    \/ core_registrar_venda(t)
    \/ core_baixar_select(t)
    \/ core_baixar_update(t)

SpecK == Init /\ [][NextK]_vars

(***************************************************************************)
(* src/pdv.py (desktop, single store): finalizar_venda                     *)
(***************************************************************************)
\* listar_produtos through ler_estoque: the rows of the catalog by code
ler_estoque(d) == [c \in Codigos |-> d.prod[<<LojaUnica, c>>]]

\* the first line of the cart that fails  "if not prod" / "item['qtd'] > qtd_disp"  (0: none)
PrimeiraFalha(cache, itens) ==
  LET ruins == {i \in DOMAIN itens : \/ ~cache[itens[i].codigo].existe
                                     \/ itens[i].qtd > cache[itens[i].codigo].quantidade}
  IN IF ruins = {} THEN 0 ELSE CHOOSE i \in ruins : \A j \in ruins : i <= j

\* "Baixa estoque no cache": linha[4] = qtd_disp - item["qtd"] for every line of the cart
RECURSIVE BaixaCache(_, _)
BaixaCache(cache, itens) ==
  IF itens = <<>> THEN cache
  ELSE BaixaCache([cache EXCEPT ![Head(itens).codigo].quantidade = @ - Head(itens).qtd],
                  Tail(itens))

\* sincronizar_produtos: INSERT ... ON CONFLICT(codigo) DO UPDATE for every row of the cache
sincronizar_produtos(d, cache) ==
  [d EXCEPT !.prod = [p \in Produtos |->
                        IF p[1] = LojaUnica /\ cache[p[2]].existe THEN cache[p[2]] ELSE @[p]]]

\* sess = get_sessao_aberta_cb(); the cart is not empty
pdv_finalizar_venda(t) ==
  /\ Chama(t)
  /\ \E itens \in CarrinhosDict :
       LET sess == get_sessao_aberta(db, LojaUnica)
           l == [LocVazio EXCEPT !.op = "venda", !.loja = LojaUnica, !.sid = sess,
                                 !.itens = itens, !.total = Subtotal(itens)]
       IN IF sess = 0
          THEN Retorna(t, "SESSAO", l)
          ELSE Segue(t, "pdv_recarregar", l)
  /\ UNCHANGED <<db, lock, tx>>

\* recarregar_estoque_cache(), the check of every line against the cache, and
\* the decrement of the cache
pdv_recarregar(t) ==
  /\ pc[t] = "pdv_recarregar"
  /\ LET cache == ler_estoque(db)
         falha == PrimeiraFalha(cache, loc[t].itens)
     IN IF falha # 0
        THEN Retorna(t, IF cache[loc[t].itens[falha].codigo].existe
                        THEN "ESTOQUE" ELSE "NAO_ENCONTRADO", loc[t])
        ELSE Segue(t, "pdv_escrever", [loc[t] EXCEPT !.cache = BaixaCache(cache, loc[t].itens)])
  /\ UNCHANGED <<db, lock, tx, chamadas>>

\* escrever_estoque(list(estoque_cache.values()))
pdv_escrever(t) ==
  /\ pc[t] = "pdv_escrever"
  /\ Autocommit(sincronizar_produtos(db, loc[t].cache))
  /\ Segue(t, "pdv_registrar", loc[t])
  /\ UNCHANGED chamadas

\* registrar_venda_completa(...): pdv.registrar_venda_completa_db
pdv_registrar_venda_completa_db(t) ==
  /\ pc[t] = "pdv_registrar"
  /\ IF FkSessao(db, loc[t].sid)
     THEN /\ Autocommit(InserirVenda(db, LojaUnica, loc[t].sid, loc[t].total, loc[t].itens))
          /\ Retorna(t, "OK", loc[t])
     ELSE /\ UNCHANGED <<db, lock, tx>>
          /\ Retorna(t, "FK", loc[t])
  /\ UNCHANGED chamadas

\* pdv.py's abrir_caixa_db and fechar_caixa_db are core_db.py's abrir_caixa and
\* fechar_caixa, statement for statement
pdv_abrir_caixa_db(t) == core_abrir_caixa(t)
pdv_abrir_insert(t) == core_abrir_insert(t)
pdv_fechar_caixa_db(t) == core_fechar_caixa(t)
pdv_fechar_update(t) == core_fechar_update(t)

NextD ==
  \E t \in Terminais :
    \/ pdv_abrir_caixa_db(t)
    \/ pdv_abrir_insert(t)
    \/ pdv_fechar_caixa_db(t)
    \/ pdv_fechar_update(t)
    \/ pdv_finalizar_venda(t)
    \/ pdv_recarregar(t)
    \/ pdv_escrever(t)
    \/ pdv_registrar_venda_completa_db(t)

SpecD == Init /\ [][NextD]_vars

(***************************************************************************)
(* src/pdv_web_full.py: the catalog (upsert_produto,                       *)
(* baixar_estoque_por_codigo)                                              *)
(***************************************************************************)
\* what the product form and the callers pass: codes and names with and without
\* blanks around them, prices, costs and quantities on both sides of their limits
CodigosDigitados == Codigos \cup {" A", " "}
Nomes == {"N2", " "}
PrecosDeVenda == {0, 3}
PrecosDeCusto == {0 - 1, 0}
Quantidades == (0 - 1)..QtdInicial

\* str.strip() on the texts above
strip(txt) ==
  CASE txt = " " -> ""
    [] txt = " A" -> "A"
    [] OTHER -> txt

\* the arguments of upsert_produto after loja_id
Produto(codigo, nome, preco_custo, preco_venda, quantidade) ==
  [codigo |-> codigo, nome |-> nome, preco_custo |-> preco_custo,
   preco_venda |-> preco_venda, quantidade |-> quantidade]

ProdutosDigitados ==
  {Produto(c, n, pc_, pv, q) : c \in CodigosDigitados, n \in Nomes, pc_ \in PrecosDeCusto,
                              pv \in PrecosDeVenda, q \in Quantidades}

\* an upsert_produto that tests nothing
SemValidacao(p) == TRUE

\* the four tests of upsert_produto before it opens the connection
ProdutoValido(p) ==
  /\ strip(p.codigo) # "" /\ strip(p.nome) # ""
  /\ ~(p.preco_venda <= 0)
  /\ ~(p.preco_custo < 0)
  /\ ~(p.quantidade < 0)

\* an INSERT ... ON CONFLICT that keeps the quantity of the row it finds
UpsertSemQuantidade(d, loja, p) ==
  [d EXCEPT !.prod[<<loja, strip(p.codigo)>>] =
              [existe |-> TRUE, nome |-> strip(p.nome), preco_custo |-> p.preco_custo,
               preco_venda |-> p.preco_venda,
               quantidade |-> IF @.existe THEN @.quantidade ELSE p.quantidade]]

\* INSERT INTO produtos ... ON CONFLICT(loja_id, codigo) DO UPDATE SET nome, preco_custo,
\* preco_venda, quantidade
UpsertLinha(d, loja, p) ==
  [d EXCEPT !.prod[<<loja, strip(p.codigo)>>] =
              [existe |-> TRUE, nome |-> strip(p.nome), preco_custo |-> p.preco_custo,
               preco_venda |-> p.preco_venda, quantidade |-> p.quantidade]]

\* the locals of a call about one product
LocProduto(op, loja, produto) ==
  [op |-> op, loja |-> loja, sid |-> 0, i |-> 0, produto |-> produto]

\* the forms whose quantity and code vary, the other fields filled in validly
ProdutosComEstoque ==
  {p \in ProdutosDigitados : p.nome = "N2" /\ p.preco_custo = 0 /\ p.preco_venda = 3}

\* upsert_produto up to its INSERT: the tests, BEGIN IMMEDIATE and the statement
web_upsert_produto(t) ==
  /\ Chama(t)
  /\ \E loja \in Lojas, p \in ProdutosComEstoque :
       LET l == LocProduto("upsert", loja, [p EXCEPT !.codigo = strip(@), !.nome = strip(@)])
       IN IF ~ProdutoValido(p)
          THEN Retorna(t, "VALIDACAO", l) /\ UNCHANGED <<db, lock, tx>>
          ELSE \/ Begin(t, UpsertLinha(db, loja, p)) /\ Segue(t, "web_upsert_commit", l)
               \/ Ocupado(t) /\ Retorna(t, "LOCKED", l) /\ UNCHANGED <<db, lock, tx>>

web_upsert_commit(t) ==
  /\ pc[t] = "web_upsert_commit"
  /\ Commit(t, tx[t].d)
  /\ Retorna(t, "OK", loc[t])
  /\ UNCHANGED chamadas

\* baixar_estoque_por_codigo(loja_id, codigo, qtd) up to its UPDATE: the two tests
\* and BEGIN IMMEDIATE
web_baixar_estoque_por_codigo(t) ==
  /\ Chama(t)
  /\ \E loja \in Lojas, codigo \in CodigosDigitados, qtd \in 0..(QtdInicial + 1) :
       LET l == LocProduto("baixar", loja, Produto(strip(codigo), "", 0, 0, qtd))
       IN IF strip(codigo) = "" \/ qtd <= 0
          THEN Retorna(t, "INVALIDO", l) /\ UNCHANGED <<db, lock, tx>>
          ELSE \/ Begin(t, db) /\ Segue(t, "web_baixar_update", l)
               \/ Ocupado(t) /\ Retorna(t, "LOCKED", l) /\ UNCHANGED <<db, lock, tx>>

\* the guarded UPDATE, then conn.commit(), or conn.rollback() and raise on rowcount 0
web_baixar_update(t) ==
  /\ pc[t] = "web_baixar_update"
  /\ LET codigo == loc[t].produto.codigo
         qtd == loc[t].produto.quantidade
     IN IF LinhaComEstoque(tx[t].d, loc[t].loja, codigo, qtd)
        THEN /\ Commit(t, UpdateBaixa(tx[t].d, loc[t].loja, codigo, qtd))
             /\ Retorna(t, "OK", loc[t])
        ELSE /\ Rollback(t, tx[t].d)
             /\ Retorna(t, "ESTOQUE", loc[t])
  /\ UNCHANGED chamadas

\* core_db.baixar_estoque(codigo, qtd) called for one product
core_baixar_estoque(t) ==
  /\ Chama(t)
  /\ \E codigo \in Codigos, qtd \in 1..(QtdInicial + 1) :
       Segue(t, "core_baixar_select",
             [LocVazio EXCEPT !.op = "baixar", !.loja = LojaUnica,
                              !.itens = <<[codigo |-> codigo, qtd |-> qtd]>>, !.i = 1])
  /\ UNCHANGED <<db, lock, tx>>

\* the writers of produtos.quantidade on one database file: the guarded decrement
\* and the upsert of pdv_web_full.py, baixar_estoque of core_db.py and the
\* settlement of pdv.py with its write-back of the cache
NextEstoque ==
  \E t \in Terminais :
    \/ web_upsert_produto(t)
    \/ web_upsert_commit(t)
    \/ web_baixar_estoque_por_codigo(t)
    \/ web_baixar_update(t)
    \/ core_baixar_estoque(t)
    \/ core_baixar_select(t)
    \/ core_baixar_update(t)
    \/ pdv_finalizar_venda(t)
    \/ pdv_recarregar(t)
    \/ pdv_escrever(t)
    \/ pdv_registrar_venda_completa_db(t)

\* the database of Init with a catalog that the product form registered
CatalogoDigitado(d) ==
  [d EXCEPT !.prod = [p \in Produtos |->
                        UpsertLinha(d, p[1], Produto(p[2], "N2", 0, 3, QtdInicial)).prod[p]]]

InitEstoque ==
  /\ db = CatalogoDigitado(InserirSessao(BancoInicial, LojaUnica, SaldoAbertura))
  /\ lock = Livre
  /\ tx = [t \in Terminais |-> SemTx]
  /\ pc = [t \in Terminais |-> "ocioso"]
  /\ loc = [t \in Terminais |-> LocVazio]
  /\ res = [t \in Terminais |-> ResVazio]
  /\ chamadas = 0

SpecEstoque == InitEstoque /\ [][NextEstoque]_vars

(***************************************************************************)
(* The checkout handlers, each run from its first statement to its last    *)
(* with no other terminal in between                                       *)
(***************************************************************************)
\* labels of the payment selectbox / combobox
Rotulos == {"Pix", "Dinheiro", "Cartão Crédito"}

\* map_forma_pagamento / map_forma / _map_forma_pagamento
map_forma_pagamento(rotulo_ui) ==
  CASE rotulo_ui = "Pix" -> "PIX"
    [] rotulo_ui = "Dinheiro" -> "DINHEIRO"
    [] rotulo_ui = "Cartão Crédito" -> "CARTAO_CREDITO"
    [] rotulo_ui = "Cartão Débito" -> "CARTAO_DEBITO"
    [] OTHER -> "OUTRO"

\* what an operator leaves in a text field
Textos == {"-1", "0", "2", "9", "x"}
\* what st.number_input(min_value=0.0) lets through
NumerosNaoNegativos == {0, 2, 9}

\* float(s) of python: the number a text spells, or ValueError (ok = FALSE)
float(s) ==
  CASE s = "-1" -> [ok |-> TRUE, v |-> 0 - 1]
    [] s = "0" -> [ok |-> TRUE, v |-> 0]
    [] s = "2" -> [ok |-> TRUE, v |-> 2]
    [] s = "9" -> [ok |-> TRUE, v |-> 9]
    [] OTHER -> [ok |-> FALSE, v |-> 0]

\* pdv_web_full.to_float: 0.0 for an empty text and for a text that is no number
to_float(txt) ==
  IF txt = "" THEN 0 ELSE IF float(txt).ok THEN float(txt).v ELSE 0

\* pdv.parse_preco: 0.0 for an empty text, raises for a text that is no number
parse_preco(txt) ==
  IF txt = "" THEN [ok |-> TRUE, v |-> 0] ELSE float(txt)

\* Python's min in the place of max
Min(a, b) == IF a <= b THEN a ELSE b

Max(a, b) == IF a >= b THEN a ELSE b

\* INSERT INTO vendas_cabecalho with its payment columns
InserirCabecalhoPago(d, loja, sid, subtotal, desconto, total, forma_pagamento, recebido, troco) ==
  [d EXCEPT !.vend = Append(@, [loja |-> loja, sessao_id |-> sid, total |-> total,
                                status |-> "FINALIZADA", itens |-> <<>>,
                                subtotal |-> subtotal, desconto |-> desconto,
                                forma_pagamento |-> forma_pagamento,
                                recebido |-> recebido, troco |-> troco])]

\* the arguments of a settlement call after the session and the cart
Pagamento(forma_pagamento, subtotal, desconto, total, recebido, troco) ==
  [forma_pagamento |-> forma_pagamento, subtotal |-> subtotal, desconto |-> desconto,
   total |-> total, recebido |-> recebido, troco |-> troco]

\* pdv_web_full.registrar_venda_completa_db from call to return: the result and
\* the database it leaves
web_registrar_seq(d, loja, sid, itens, pg, baixar_estoque) ==
  IF ~SessaoAbertaDaLoja(d, loja, sid)
  THEN [r |-> "SESSAO", d |-> d]
  ELSE LET d1 == InserirCabecalhoPago(d, loja, sid, pg.subtotal, pg.desconto, pg.total,
                                      pg.forma_pagamento, pg.recebido, pg.troco)
           r == web_itens(d1, loja, Len(d1.vend), itens, baixar_estoque)
       IN IF r.ok THEN [r |-> "OK", d |-> r.d] ELSE [r |-> "ESTOQUE", d |-> d]

\* core_db.registrar_venda's loop  for it in itens: baixar_estoque(...)
RECURSIVE core_baixas(_, _)
core_baixas(d, itens) ==
  IF itens = <<>>
  THEN [r |-> "OK", d |-> d]
  ELSE LET it == Head(itens)
           row == d.prod[<<LojaUnica, it.codigo>>]
       IN IF ~row.existe THEN [r |-> "NAO_ENCONTRADO", d |-> d]
          ELSE IF it.qtd > row.quantidade THEN [r |-> "ESTOQUE", d |-> d]
          ELSE core_baixas(UpdateQuantidade(d, LojaUnica, it.codigo, row.quantidade - it.qtd),
                           Tail(itens))

\* core_db.registrar_venda from call to return or raise
core_registrar_seq(d, sid, itens, forma_pagamento, desconto, recebido, troco) ==
  LET subtotal == Subtotal(itens)
      total == Max(0, subtotal - desconto)
  IN IF ~FkSessao(d, sid)
     THEN [r |-> "FK", d |-> d]
     ELSE core_baixas(InserirItens(InserirCabecalhoPago(d, LojaUnica, sid, subtotal, desconto,
                                                        total, forma_pagamento, recebido, troco),
                                   Len(d.vend) + 1, itens),
                      itens)

\* pdv.registrar_venda_completa_db from call to return or raise
pdv_registrar_seq(d, sid, itens, pg) ==
  IF ~FkSessao(d, sid)
  THEN [r |-> "FK", d |-> d]
  ELSE [r |-> "OK",
        d |-> InserirItens(InserirCabecalhoPago(d, LojaUnica, sid, pg.subtotal, pg.desconto,
                                                pg.total, pg.forma_pagamento, pg.recebido,
                                                pg.troco),
                           Len(d.vend) + 1, itens)]

\* a checkout that lets every cash payment through
PagamentoAceito(forma, recebido, total) == FALSE

\* if forma == "Dinheiro" and recebido < total: the sale is refused
PagamentoInsuficiente(forma, recebido, total) == forma = "Dinheiro" /\ recebido < total

\* the stock rows of one store by code, as buscar_produto_por_codigo finds them
EstoqueDaLoja(d, loja) == [c \in Codigos |-> d.prod[<<loja, c>>]]

\* the result of the check of every cart line against the stock
ErroDeEstoque(cache, itens) ==
  IF cache[itens[PrimeiraFalha(cache, itens)].codigo].existe THEN "ESTOQUE" ELSE "NAO_ENCONTRADO"

\* pdv_web_full.py, "FINALIZAR": the amounts computed when the page is drawn,
\* then the button's handler
web_FINALIZAR(d, loja, cart, forma_ui, desconto_txt, recebido_txt) ==
  LET sid == get_sessao_aberta(d, loja)
      subtotal == Subtotal(cart)
      lido == to_float(desconto_txt)
      naoneg == IF lido < 0 THEN 0 ELSE lido
      desconto == IF naoneg > subtotal THEN subtotal ELSE naoneg
      total_liq == Max(0, subtotal - desconto)
      recebido == IF forma_ui = "Dinheiro" THEN to_float(recebido_txt) ELSE 0
      troco == IF forma_ui = "Dinheiro" THEN Max(0, recebido - total_liq) ELSE 0
      cache == EstoqueDaLoja(d, loja)
  IN IF cart = <<>> THEN [r |-> "VAZIO", d |-> d]
     ELSE IF PrimeiraFalha(cache, cart) # 0 THEN [r |-> ErroDeEstoque(cache, cart), d |-> d]
     ELSE IF PagamentoInsuficiente(forma_ui, recebido, total_liq) THEN [r |-> "PAGAMENTO", d |-> d]
     ELSE web_registrar_seq(d, loja, sid, cart,
                            Pagamento(map_forma_pagamento(forma_ui), subtotal, desconto,
                                      total_liq, recebido, troco),
                            TRUE)

\* web_pdv.py, "Finalizar venda": the amounts of the payment column, then the
\* button's handler
webpdv_finalizar(d, cart, forma, desconto, recebido_campo) ==
  LET sid == get_sessao_aberta(d, LojaUnica)
      subtotal == Subtotal(cart)
      total == Max(0, subtotal - desconto)
      recebido == IF forma = "Dinheiro" THEN recebido_campo ELSE 0
      troco == IF forma = "Dinheiro" THEN Max(0, recebido - total) ELSE 0
  IN IF PagamentoInsuficiente(forma, recebido, total)
     THEN [r |-> "PAGAMENTO", d |-> d]
     ELSE core_registrar_seq(d, sid, cart, map_forma_pagamento(forma), desconto, recebido, troco)

\* a tk.Entry: config(state=...), delete(0, END) and insert(0, s); a disabled
\* entry ignores delete and insert
EntryConfig(e, state) == [e EXCEPT !.state = state]
EntryDelete(e) == IF e.state = "normal" THEN [e EXCEPT !.text = ""] ELSE e
EntryInsert(e, txt) == IF e.state = "normal" THEN [e EXCEPT !.text = txt \o @] ELSE e

\* the payment widgets of the desktop register as montar_caixa builds them
UiInicial ==
  [cb_pag |-> "Pix", entry_rec |-> EntryConfig(EntryInsert([state |-> "normal", text |-> ""], "0"),
                                               "disabled")]

\* pdv.atualizar_pagamento_ui: what it does to the widgets finalizar_venda reads
atualizar_pagamento_ui(ui) ==
  IF ui.cb_pag = "Dinheiro"
  THEN [ui EXCEPT !.entry_rec = EntryConfig(@, "normal")]
  ELSE [ui EXCEPT !.entry_rec = EntryInsert(EntryDelete(EntryConfig(@, "disabled")), "0")]

\* the widgets after a sale: cb_pag.set("Pix"), entry_rec disabled, cleared, "0"
UiAposVenda(ui) ==
  [ui EXCEPT !.cb_pag = "Pix",
             !.entry_rec = EntryInsert(EntryDelete(EntryConfig(@, "disabled")), "0")]

\* pdv.py finalizar_venda from its first statement to its return
pdv_finalizar_seq(d, ui, cart, desconto_txt) ==
  LET sessao_id == get_sessao_aberta(d, LojaUnica)
      cache == ler_estoque(d)
      desconto == parse_preco(desconto_txt)
      subtotal == Subtotal(cart)
      total_liq == Max(0, subtotal - desconto.v)
      lido == parse_preco(ui.entry_rec.text)
      recebido == IF lido.ok THEN lido.v ELSE 0
      troco == IF ui.cb_pag = "Dinheiro" THEN recebido - total_liq ELSE 0
      escrito == sincronizar_produtos(d, BaixaCache(cache, cart))
  IN IF sessao_id = 0 THEN [r |-> "SESSAO", d |-> d]
     ELSE IF cart = <<>> THEN [r |-> "VAZIO", d |-> d]
     ELSE IF PrimeiraFalha(cache, cart) # 0 THEN [r |-> ErroDeEstoque(cache, cart), d |-> d]
     ELSE IF ~desconto.ok \/ desconto.v < 0 THEN [r |-> "DESCONTO", d |-> d]
     ELSE IF PagamentoInsuficiente(ui.cb_pag, recebido, total_liq) THEN [r |-> "PAGAMENTO", d |-> d]
     ELSE pdv_registrar_seq(escrito, sessao_id, cart,
                            Pagamento(map_forma_pagamento(ui.cb_pag), subtotal, desconto.v,
                                      total_liq, recebido, troco))

\* A behaviour of the checkout follows one register, Balcao, from a database that
\* earlier work left (any stock, the till of store 1 open or not) through the
\* operator's changes of the payment widgets to the end of one click on a
\* checkout button.
Balcao == CHOOSE t \in Terminais : TRUE

BancosDeUmDia ==
  {[b EXCEPT !.prod = [p \in Produtos |-> [@[p] EXCEPT !.quantidade = q[p[2]]]]] :
     b \in {BancoInicial, InserirSessao(BancoInicial, LojaUnica, SaldoAbertura)},
     q \in [Codigos -> 0..QtdInicial]}

InitF ==
  /\ db \in BancosDeUmDia
  /\ lock = Livre
  /\ tx = [t \in Terminais |-> SemTx]
  /\ pc = [t \in Terminais |-> "ocioso"]
  /\ loc = [t \in Terminais |-> UiInicial]
  /\ res = [t \in Terminais |-> ResVazio]
  /\ chamadas = 0

\* no checkout button has been pressed yet
NaTela == res[Balcao].op = "nenhuma"

\* what the operator had on the screen at the click: the cart, the payment
\* method's label and the numbers that the discount and tendered fields spell
Entrada(cart, forma, desconto, recebido) ==
  [cart |-> cart, forma |-> forma, desconto |-> desconto, recebido |-> recebido]

Numero(v) == [ok |-> TRUE, v |-> v]

\* the handler ends with result h.r on database h.d
Termina(op, loja, sid, entrada, h) ==
  /\ NaTela
  /\ db' = h.d
  /\ res' = [res EXCEPT ![Balcao] = [op |-> op, r |-> h.r, loja |-> loja, sid |-> sid,
                                     linha |-> 0, entrada |-> entrada]]
  /\ UNCHANGED <<lock, tx, pc, chamadas>>

\* pdv_web_full.py: the operator presses FINALIZAR with this cart and these fields
web_clicar_com(loja, cart, forma_ui, desconto_txt, recebido_txt) ==
  /\ get_sessao_aberta(db, loja) # 0
  /\ Termina("web_FINALIZAR", loja, get_sessao_aberta(db, loja),
             Entrada(cart, forma_ui, float(desconto_txt), float(recebido_txt)),
             web_FINALIZAR(db, loja, cart, forma_ui, desconto_txt, recebido_txt))
  /\ UNCHANGED loc

web_clicar_FINALIZAR ==
  /\ NaTela
  /\ \E loja \in Lojas :
       /\ get_sessao_aberta(db, loja) # 0
       /\ \E cart \in Carrinhos \cup {<<>>}, forma_ui \in Rotulos,
             desconto_txt \in Textos, recebido_txt \in Textos :
            web_clicar_com(loja, cart, forma_ui, desconto_txt, recebido_txt)

\* web_pdv.py: the operator presses "Finalizar venda"; the button is disabled
\* while the cart is empty
webpdv_clicar_com(cart, forma, desconto, recebido) ==
  /\ get_sessao_aberta(db, LojaUnica) # 0
  /\ Termina("webpdv_finalizar", LojaUnica, get_sessao_aberta(db, LojaUnica),
             Entrada(cart, forma, Numero(desconto), Numero(recebido)),
             webpdv_finalizar(db, cart, forma, desconto, recebido))
  /\ UNCHANGED loc

webpdv_clicar_finalizar ==
  /\ NaTela
  /\ get_sessao_aberta(db, LojaUnica) # 0
  /\ \E cart \in CarrinhosDict, forma \in Rotulos,
        desconto \in NumerosNaoNegativos, recebido \in NumerosNaoNegativos :
       webpdv_clicar_com(cart, forma, desconto, recebido)

\* pdv.py: <<ComboboxSelected>> on cb_pag
pdv_cb_pag_selected ==
  /\ NaTela
  /\ \E rotulo \in Rotulos :
       /\ rotulo # loc[Balcao].cb_pag
       /\ loc' = [loc EXCEPT ![Balcao] = atualizar_pagamento_ui([@ EXCEPT !.cb_pag = rotulo])]
  /\ UNCHANGED <<db, lock, tx, pc, res, chamadas>>

\* pdv.py: the operator types into entry_rec, which takes keys while it is normal
pdv_entry_rec_key ==
  /\ NaTela
  /\ loc[Balcao].entry_rec.state = "normal"
  /\ \E txt \in Textos :
       /\ txt # loc[Balcao].entry_rec.text
       /\ loc' = [loc EXCEPT ![Balcao] = atualizar_pagamento_ui([@ EXCEPT !.entry_rec.text = txt])]
  /\ UNCHANGED <<db, lock, tx, pc, res, chamadas>>

\* pdv.py: the operator presses the button of finalizar_venda
pdv_clicar_com(cart, desconto_txt) ==
  LET h == pdv_finalizar_seq(db, loc[Balcao], cart, desconto_txt)
  IN /\ Termina("pdv_finalizar_venda", LojaUnica, get_sessao_aberta(db, LojaUnica),
                Entrada(cart, loc[Balcao].cb_pag, float(desconto_txt),
                        float(loc[Balcao].entry_rec.text)),
                h)
     /\ loc' = [loc EXCEPT ![Balcao] = IF h.r = "OK" THEN UiAposVenda(@) ELSE @]

pdv_clicar_finalizar ==
  /\ NaTela
  /\ \E cart \in CarrinhosDict \cup {<<>>}, desconto_txt \in Textos :
       pdv_clicar_com(cart, desconto_txt)

NextF == \/ web_clicar_FINALIZAR
         \/ webpdv_clicar_finalizar
         \/ pdv_cb_pag_selected
         \/ pdv_entry_rec_key
         \/ pdv_clicar_finalizar
SpecF == InitF /\ [][NextF]_vars

\* The settlement functions called on their own, as any caller of the modules may
\* call them: with any list of lines, the empty one too, paid by PIX with no discount.
ListasDeItens == Carrinhos \cup {<<>>}

SemDesconto(itens) == Pagamento("PIX", Subtotal(itens), 0, Subtotal(itens), 0, 0)

\* pdv_web_full.registrar_venda_completa_db(loja_id, sessao_id, itens, ..., baixar_estoque=True)
web_chamar_registrar ==
  /\ NaTela
  /\ \E loja \in Lojas, sid \in Sids, itens \in ListasDeItens :
       Termina("web_registrar_venda_completa_db", loja, sid,
               Entrada(itens, "Pix", Numero(0), Numero(0)),
               web_registrar_seq(db, loja, sid, itens, SemDesconto(itens), TRUE))
  /\ UNCHANGED loc

\* core_db.registrar_venda(sessao_id, itens, forma_pagamento, desconto, recebido, troco)
core_chamar_registrar ==
  /\ NaTela
  /\ \E sid \in Sids, itens \in ListasDeItens :
       Termina("core_registrar_venda", LojaUnica, sid,
               Entrada(itens, "Pix", Numero(0), Numero(0)),
               core_registrar_seq(db, sid, itens, "PIX", 0, 0, 0))
  /\ UNCHANGED loc

\* pdv.registrar_venda_completa_db(sessao_id, itens, forma_pagamento, subtotal, ...)
pdv_chamar_registrar ==
  /\ NaTela
  /\ \E sid \in Sids, itens \in ListasDeItens :
       Termina("pdv_registrar_venda_completa_db", LojaUnica, sid,
               Entrada(itens, "Pix", Numero(0), Numero(0)),
               pdv_registrar_seq(db, sid, itens, SemDesconto(itens)))
  /\ UNCHANGED loc

NextChamada == web_chamar_registrar \/ core_chamar_registrar \/ pdv_chamar_registrar
SpecChamada == InitF /\ [][NextChamada]_vars

(***************************************************************************)
(* src/pdv_web_full.py: the functions of the catalogue, the till and the   *)
(* store reset, each called from the one register and run to its end       *)
(***************************************************************************)
\* upsert_produto(loja_id, codigo, nome, preco_custo, preco_venda, quantidade)
upsert_produto(d, loja, p) ==
  IF ~ProdutoValido(p)
  THEN [r |-> "VALIDACAO", d |-> d]
  ELSE [r |-> "OK", d |-> UpsertLinha(d, loja, p)]

\* a row of produtos that DELETE has removed
ProdutoApagado ==
  [existe |-> FALSE, nome |-> "", preco_custo |-> 0, preco_venda |-> 0, quantidade |-> 0]

\* a delete that also takes the product's lines out of the sales
excluir_produto_e_linhas(d, loja, codigo) ==
  [r |-> "OK",
   d |-> [d EXCEPT !.prod[<<loja, strip(codigo)>>] = ProdutoApagado,
                   !.vend = [v \in DOMAIN d.vend |->
                               [d.vend[v] EXCEPT !.itens =
                                  SelectSeq(@, LAMBDA it : it.codigo # strip(codigo))]]]]

\* excluir_produto(loja_id, codigo): returns at once on an empty code, else
\* DELETE FROM produtos WHERE loja_id = ? AND codigo = ?
excluir_produto(d, loja, codigo) ==
  IF strip(codigo) = ""
  THEN [r |-> "NADA", d |-> d]
  ELSE [r |-> "OK", d |-> [d EXCEPT !.prod[<<loja, strip(codigo)>>] = ProdutoApagado]]

\* the register may make one more call
PodeChamar == chamadas < MaxChamadas

\* a call of op ends with result h.r on database h.d
Executa(op, loja, sid, entrada, h) ==
  /\ PodeChamar
  /\ chamadas' = chamadas + 1
  /\ db' = h.d
  /\ res' = [res EXCEPT ![Balcao] = [op |-> op, r |-> h.r, loja |-> loja, sid |-> sid,
                                     linha |-> 0, entrada |-> entrada]]
  /\ UNCHANGED <<lock, tx, pc, loc>>

\* the product form is saved with these fields
web_salvar_produto(digitados) ==
  /\ PodeChamar
  /\ \E loja \in Lojas, p \in digitados :
       Executa("upsert_produto", loja, 0, p, upsert_produto(db, loja, p))

web_chamar_upsert_produto == web_salvar_produto(ProdutosDigitados)

\* the delete button is pressed with this code typed
web_chamar_excluir_produto ==
  /\ PodeChamar
  /\ \E loja \in Lojas, codigo \in CodigosDigitados :
       Executa("excluir_produto", loja, 0, codigo, excluir_produto(db, loja, codigo))

NextCatalogo == web_chamar_upsert_produto \/ web_chamar_excluir_produto

SpecCatalogo == Init /\ [][NextCatalogo]_vars

\* abrir_caixa_db(loja_id, saldo_inicial)
abrir_caixa_db(d, loja, saldo) ==
  IF get_sessao_aberta(d, loja) # 0
  THEN [r |-> "JA_ABERTO", d |-> d]
  ELSE [r |-> "OK", d |-> InserirSessao(d, loja, saldo)]

\* fechar_caixa_db(loja_id, sessao_id, saldo_informado)
fechar_caixa_db(d, loja, sid, informado) ==
  LET sistema == totais_sessao(d, loja, sid).saldo_final_sistema
  IN IF SessaoAbertaDaLoja(d, loja, sid)
     THEN [r |-> "OK", d |-> UpdateFechar(d, sid, sistema, informado, informado - sistema)]
     ELSE [r |-> "NAO_ABERTA", d |-> d]

\* baixar_estoque_por_codigo(loja_id, codigo, qtd)
baixar_estoque_por_codigo(d, loja, codigo, qtd) ==
  IF strip(codigo) = "" \/ qtd <= 0 THEN [r |-> "INVALIDO", d |-> d]
  ELSE IF LinhaComEstoque(d, loja, strip(codigo), qtd)
  THEN [r |-> "OK", d |-> UpdateBaixa(d, loja, strip(codigo), qtd)]
  ELSE [r |-> "ESTOQUE", d |-> d]

\* relatorio_pagamentos_sessao(loja_id, sessao_id): the total of each payment method
relatorio_pagamentos_sessao(d, loja, sid) ==
  LET linhas == {v \in DOMAIN d.vend : /\ d.vend[v].loja = loja /\ d.vend[v].sessao_id = sid
                                       /\ d.vend[v].status = "FINALIZADA"}
      formas == {d.vend[v].forma_pagamento : v \in linhas}
  IN [f \in formas |->
        SomaSeq([v \in DOMAIN d.vend |->
                   IF v \in linhas /\ d.vend[v].forma_pagamento = f THEN d.vend[v].total ELSE 0])]

\* the DELETEs without their  WHERE loja_id = ?
ApagarTudo(d, loja) ==
  [d EXCEPT !.vend = [v \in DOMAIN d.vend |-> VendaApagada],
            !.sess = [s \in DOMAIN d.sess |-> SessaoApagada],
            !.prod = [p \in Produtos |-> ProdutoApagado]]

\* DELETE FROM vendas_itens / vendas_cabecalho / caixa_sessoes / produtos WHERE loja_id = ?
ApagarLoja(d, loja) ==
  [d EXCEPT !.vend = [v \in DOMAIN d.vend |->
                        IF d.vend[v].loja = loja THEN VendaApagada ELSE d.vend[v]],
            !.sess = [s \in DOMAIN d.sess |->
                        IF d.sess[s].loja = loja THEN SessaoApagada ELSE d.sess[s]],
            !.prod = [p \in Produtos |->
                        IF p[1] = loja THEN ProdutoApagado ELSE d.prod[p]]]

\* a sale of another store refers to a session of this store: with foreign keys
\* on, the DELETE of the session fails
SessaoReferida(d, loja) ==
  \E v \in DOMAIN d.vend :
    /\ d.vend[v].loja \notin {0, loja}
    /\ d.vend[v].sessao_id \in DOMAIN d.sess
    /\ d.sess[d.vend[v].sessao_id].loja = loja

\* zerar_loja(loja_id)
zerar_loja(d, loja) ==
  IF get_sessao_aberta(d, loja) # 0 THEN [r |-> "CAIXA_ABERTO", d |-> d]
  ELSE IF SessaoReferida(d, loja) THEN [r |-> "FK", d |-> d]
  ELSE [r |-> "OK", d |-> ApagarLoja(d, loja)]

web_chamar_abrir_caixa_db ==
  /\ PodeChamar
  /\ \E loja \in Lojas, saldo \in SaldosIniciais :
       Executa("abrir_caixa_db", loja, 0, saldo, abrir_caixa_db(db, loja, saldo))

web_chamar_fechar_caixa_db ==
  /\ PodeChamar
  /\ \E loja \in Lojas, sid \in Sids, informado \in SaldosInformados :
       Executa("fechar_caixa_db", loja, sid, informado, fechar_caixa_db(db, loja, sid, informado))

\* a line of st.session_state.cart: the product's name, price and cost as they
\* were in the catalogue when it was added
LinhaDoCarrinho(d, loja, codigo, qtd) ==
  LET linha == d.prod[<<loja, codigo>>]
  IN [codigo |-> codigo, qtd |-> qtd, produto |-> linha.nome, preco_unit |-> linha.preco_venda,
      preco_custo |-> linha.preco_custo, total_item |-> linha.preco_venda * qtd]

\* a sale paid by PIX without discount
PagoEmPix(subtotal) == Pagamento("PIX", subtotal, 0, subtotal, 0, 0)

\* registrar_venda_completa_db(..., baixar_estoque=True) for a cart of one line
\* of a product of the catalogue
web_chamar_venda ==
  /\ PodeChamar
  /\ \E loja \in Lojas, sid \in Sids, codigo \in Codigos, qtd \in 1..(QtdInicial + 1) :
       /\ db.prod[<<loja, codigo>>].existe
       /\ LET it == LinhaDoCarrinho(db, loja, codigo, qtd)
          IN Executa("registrar_venda_completa_db", loja, sid, <<it>>,
                     web_registrar_seq(db, loja, sid, <<it>>, PagoEmPix(it.total_item), TRUE))

web_chamar_baixar_estoque ==
  /\ PodeChamar
  /\ \E loja \in Lojas, codigo \in Codigos, qtd \in 0..QtdInicial :
       Executa("baixar_estoque_por_codigo", loja, 0, [codigo |-> codigo, qtd |-> qtd],
               baixar_estoque_por_codigo(db, loja, codigo, qtd))

web_chamar_totais_sessao ==
  /\ PodeChamar
  /\ \E loja \in Lojas, sid \in Sids :
       Executa("totais_sessao", loja, sid, <<>>, [r |-> totais_sessao(db, loja, sid), d |-> db])

web_chamar_relatorio_pagamentos_sessao ==
  /\ PodeChamar
  /\ \E loja \in Lojas, sid \in Sids :
       Executa("relatorio_pagamentos_sessao", loja, sid, <<>>,
               [r |-> relatorio_pagamentos_sessao(db, loja, sid), d |-> db])

web_chamar_zerar_loja ==
  /\ PodeChamar
  /\ \E loja \in Lojas : Executa("zerar_loja", loja, 0, <<>>, zerar_loja(db, loja))

NextLoja ==
  \/ web_chamar_abrir_caixa_db
  \/ web_chamar_fechar_caixa_db
  \/ web_chamar_venda
  \/ web_chamar_baixar_estoque
  \/ web_salvar_produto(ProdutosComEstoque)
  \/ web_chamar_excluir_produto
  \/ web_chamar_totais_sessao
  \/ web_chamar_relatorio_pagamentos_sessao
  \/ web_chamar_zerar_loja

\* criar_usuario's INSERT
InserirUsuario(d, username, role, loja) ==
  [d EXCEPT !.usuarios = Append(@, [username |-> username, role |-> role, loja |-> loja,
                                    ativo |-> TRUE])]

\* the store has had a session with one sale of one unit of A; the session is
\* still open or has been closed
LojaComMovimento(d, loja, aberto) ==
  LET d1 == abrir_caixa_db(d, loja, SaldoAbertura).d
      sid == get_sessao_aberta(d1, loja)
      it == LinhaDoCarrinho(d1, loja, "A", 1)
      d2 == web_registrar_seq(d1, loja, sid, <<it>>, PagoEmPix(it.total_item), TRUE).d
  IN IF aberto THEN d2 ELSE fechar_caixa_db(d2, loja, sid, SaldoAbertura).d

EstadoDaLoja(d, loja, estado) ==
  CASE estado = "nova" -> d
    [] estado = "aberta" -> LojaComMovimento(d, loja, TRUE)
    [] estado = "fechada" -> LojaComMovimento(d, loja, FALSE)

\* databases with one operator per store, each store new, trading or closed
BancosDeLojas ==
  {EstadoDaLoja(EstadoDaLoja(InserirUsuario(InserirUsuario(BancoInicial, "op1", "OPERADOR", 1),
                                            "op2", "OPERADOR", 2),
                             1, e1), 2, e2) :
     <<e1, e2>> \in {<<"nova", "nova">>, <<"aberta", "aberta">>, <<"fechada", "aberta">>,
                     <<"nova", "fechada">>}}

InitLoja ==
  /\ db \in BancosDeLojas
  /\ lock = Livre
  /\ tx = [t \in Terminais |-> SemTx]
  /\ pc = [t \in Terminais |-> "ocioso"]
  /\ loc = [t \in Terminais |-> LocVazio]
  /\ res = [t \in Terminais |-> ResVazio]
  /\ chamadas = 0

SpecLoja == InitLoja /\ [][NextLoja]_vars

(***************************************************************************)
(* src/pdv_web_full.py: zerar_loja step by step, beside abrir_caixa_db and *)
(* the settlement on the other terminals                                    *)
(***************************************************************************)
\* the call and  if get_sessao_aberta(int(loja_id)): raise
web_zerar_loja(t) ==
  /\ Chama(t)
  /\ \E loja \in Lojas :
       LET l == [LocVazio EXCEPT !.op = "zerar", !.loja = loja]
       IN IF get_sessao_aberta(db, loja) # 0
          THEN Retorna(t, "CAIXA_ABERTO", l)
          ELSE Segue(t, "web_zerar_begin", l)
  /\ UNCHANGED <<db, lock, tx>>

\* BEGIN IMMEDIATE and the four DELETEs
web_zerar_begin(t) ==
  /\ pc[t] = "web_zerar_begin"
  /\ \/ /\ ~SessaoReferida(db, loc[t].loja)
        /\ Begin(t, ApagarLoja(db, loc[t].loja))
        /\ Segue(t, "web_zerar_commit", loc[t])
        /\ UNCHANGED chamadas
     \/ /\ SessaoReferida(db, loc[t].loja)
        /\ lock = Livre
        /\ Retorna(t, "FK", loc[t])
        /\ UNCHANGED <<db, lock, tx, chamadas>>
     \/ ErroLocked(t)

web_zerar_commit(t) ==
  /\ pc[t] = "web_zerar_commit"
  /\ Commit(t, tx[t].d)
  /\ Retorna(t, "OK", loc[t])
  /\ UNCHANGED chamadas

NextZerar ==
  \E t \in Terminais :
    \/ web_zerar_loja(t)
    \/ web_zerar_begin(t)
    \/ web_zerar_commit(t)
    \/ web_abrir_caixa_db(t)
    \/ web_abrir_begin(t)
    \/ web_abrir_commit(t)
    \/ web_registrar_venda_completa_db(t, TRUE)
    \/ web_venda_select(t)
    \/ web_venda_begin(t)
    \/ web_venda_itens(t)

SpecZerar == Init /\ [][NextZerar]_vars

(***************************************************************************)
(* src/pdv.py: EstoqueFrame.excluir and adicionar_ao_carrinho               *)
(***************************************************************************)
\* itens = [r for r in itens if r[0] != codigo]
SemCodigo(cache, codigo) ==
  [c \in Codigos |-> IF c = codigo THEN [cache[c] EXCEPT !.existe = FALSE] ELSE cache[c]]

CarrinhoVazio == [c \in Codigos |-> 0]

\* the register's screen in pdv.py: the cart of the sale being rung up
TelaInicial == [carrinho |-> CarrinhoVazio]

\* EstoqueFrame.excluir with the row of codigo selected and the question answered
\* yes: ler_estoque, the filter, escrever_estoque, recarregar
pdv_excluir ==
  /\ PodeChamar
  /\ \E codigo \in {c \in Codigos : ler_estoque(db)[c].existe} :
       /\ chamadas' = chamadas + 1
       /\ db' = sincronizar_produtos(db, SemCodigo(ler_estoque(db), codigo))
       /\ res' = [res EXCEPT ![Balcao] = [op |-> "pdv_excluir", r |-> "OK", loja |-> LojaUnica,
                                          sid |-> 0, linha |-> 0, entrada |-> codigo]]
  /\ UNCHANGED <<lock, tx, pc, loc>>

\* adicionar_ao_carrinho with this code and this quantity typed
pdv_adicionar_ao_carrinho ==
  /\ PodeChamar
  /\ \E codigo \in CodigosDigitados, qtd \in 0..(QtdInicial + 1) :
       LET estoque_cache == ler_estoque(db)
           cod == strip(codigo)
           r == IF cod = "" THEN "SEM_CODIGO"
                ELSE IF qtd <= 0 THEN "QUANTIDADE"
                ELSE IF ~estoque_cache[cod].existe THEN "NAO_ENCONTRADO"
                ELSE IF loc[Balcao].carrinho[cod] + qtd > estoque_cache[cod].quantidade
                     THEN "ESTOQUE"
                ELSE "OK"
       IN /\ chamadas' = chamadas + 1
          /\ loc' = IF r = "OK" THEN [loc EXCEPT ![Balcao].carrinho[cod] = @ + qtd] ELSE loc
          /\ res' = [res EXCEPT ![Balcao] = [op |-> "pdv_adicionar_ao_carrinho", r |-> r,
                                             loja |-> LojaUnica, sid |-> 0, linha |-> 0,
                                             entrada |-> cod]]
  /\ UNCHANGED <<db, lock, tx, pc>>

NextExcluir == pdv_excluir \/ pdv_adicionar_ao_carrinho

InitExcluir ==
  /\ db \in BancosDeUmDia
  /\ lock = Livre
  /\ tx = [t \in Terminais |-> SemTx]
  /\ pc = [t \in Terminais |-> "ocioso"]
  /\ loc = [t \in Terminais |-> TelaInicial]
  /\ res = [t \in Terminais |-> ResVazio]
  /\ chamadas = 0

SpecExcluir == InitExcluir /\ [][NextExcluir]_vars

(***************************************************************************)
(* The add-to-cart handlers: pdv_web_full.py (add_item), web_pdv.py         *)
(* (add_form) and pdv.py (adicionar_ao_carrinho)                            *)
(***************************************************************************)
\* the carts of the three programs at the register: st.session_state.cart is a
\* list of lines, st.session_state.carrinho and pdv.py's carrinho are dicts by code
TelaDeVenda == [cart |-> <<>>, carrinho_web |-> CarrinhoVazio, carrinho |-> CarrinhoVazio]

\* buscar_produto_por_codigo(loja_id, codigo): the row, or a row that does not
\* exist for None
buscar_produto_por_codigo(d, loja, codigo) ==
  IF strip(codigo) \in Codigos THEN d.prod[<<loja, strip(codigo)>>] ELSE ProdutoApagado

\* the add_item form of pdv_web_full.py submitted with this code and quantity
web_add_item ==
  /\ PodeChamar
  /\ get_sessao_aberta(db, LojaUnica) # 0
  /\ \E codigo \in CodigosDigitados, qtd \in 1..(QtdInicial + 1) :
       LET prod == buscar_produto_por_codigo(db, LojaUnica, codigo)
           r == IF ~prod.existe THEN "NAO_ENCONTRADO"
                ELSE IF qtd > prod.quantidade THEN "ESTOQUE"
                ELSE "OK"
       IN /\ chamadas' = chamadas + 1
          /\ loc' = IF r = "OK"
                    THEN [loc EXCEPT ![Balcao].cart =
                            Append(@, LinhaDoCarrinho(db, LojaUnica, strip(codigo), qtd))]
                    ELSE loc
          /\ res' = [res EXCEPT ![Balcao] = [op |-> "web_add_item", r |-> r, loja |-> LojaUnica,
                                             sid |-> 0, linha |-> 0, entrada |-> strip(codigo)]]
  /\ UNCHANGED <<db, lock, tx, pc>>

\* the add_form of web_pdv.py submitted with this code and quantity
webpdv_add_form ==
  /\ PodeChamar
  /\ \E codigo \in CodigosDigitados, qtd \in 1..(QtdInicial + 1) :
       LET prod == buscar_produto_por_codigo(db, LojaUnica, codigo)
           cod == strip(codigo)
           r == IF ~prod.existe THEN "NAO_ENCONTRADO"
                ELSE IF loc[Balcao].carrinho_web[cod] + qtd > prod.quantidade THEN "ESTOQUE"
                ELSE "OK"
       IN /\ chamadas' = chamadas + 1
          /\ loc' = IF r = "OK" THEN [loc EXCEPT ![Balcao].carrinho_web[cod] = @ + qtd] ELSE loc
          /\ res' = [res EXCEPT ![Balcao] = [op |-> "webpdv_add_form", r |-> r, loja |-> LojaUnica,
                                             sid |-> 0, linha |-> 0, entrada |-> cod]]
  /\ UNCHANGED <<db, lock, tx, pc>>

NextCarrinho == web_add_item \/ webpdv_add_form \/ pdv_adicionar_ao_carrinho

InitCarrinho ==
  /\ db \in BancosDeUmDia
  /\ lock = Livre
  /\ tx = [t \in Terminais |-> SemTx]
  /\ pc = [t \in Terminais |-> "ocioso"]
  /\ loc = [t \in Terminais |-> TelaDeVenda]
  /\ res = [t \in Terminais |-> ResVazio]
  /\ chamadas = 0

SpecCarrinho == InitCarrinho /\ [][NextCarrinho]_vars

(***************************************************************************)
(* The user table of pdv_web_full.py: criar_usuario and                    *)
(* atualizar_usuario_role_ativo, each a call that runs to its end.         *)
(***************************************************************************)
\* what the user forms pass: names and roles in upper and lower case and with
\* blanks, passwords on both sides of the minimum, no store, a store, a store
\* that is not in the table lojas
UsuariosDigitados == {"admin", " Ana", "bia", " "}
PerfisDigitados == {"ADMIN", "dono", " operador", "GERENTE"}
SenhasDigitadas == {<<"a", "b", "c", " ">>, <<"a", "b", "c", "d">>}
LojaInexistente == CHOOSE n \in 1..(Cardinality(Lojas) + 1) : n \notin Lojas
LojasDigitadas == {0} \cup Lojas \cup {LojaInexistente}
Perfis == {"ADMIN", "DONO", "OPERADOR"}

\* (username or "").strip().lower() on the names above
usuario_normalizado(txt) ==
  CASE txt = " " -> ""
    [] txt = " Ana" -> "ana"
    [] OTHER -> txt

\* (role or "").strip().upper() on the roles above
perfil_normalizado(txt) ==
  CASE txt = "dono" -> "DONO"
    [] txt = " operador" -> "OPERADOR"
    [] OTHER -> txt

\* (senha or "").strip()
senha_strip(senha) == SelectSeq(senha, LAMBDA c : c # " ")

\* a role change that stores the store it was given
LojaInformada(role, loja) == loja

\* if role == "ADMIN": loja_id = None
LojaDoPerfil(role, loja) == IF role = "ADMIN" THEN 0 ELSE loja

\* username TEXT UNIQUE and FOREIGN KEY (loja_id) REFERENCES lojas(id)
UsuarioExiste(d, username) == \E i \in DOMAIN d.usuarios : d.usuarios[i].username = username
LojaReferivel(loja) == loja = 0 \/ loja \in Lojas

criar_usuario(d, username, role, senha, loja, ativo) ==
  LET u == usuario_normalizado(username)
      p == perfil_normalizado(role)
      l == LojaDoPerfil(p, loja)
      d1 == InserirUsuario(d, u, p, l)
  IN IF p \notin Perfis THEN [r |-> "ValueError", d |-> d]
     ELSE IF u = "" THEN [r |-> "ValueError", d |-> d]
     ELSE IF Len(senha_strip(senha)) < 4 THEN [r |-> "ValueError", d |-> d]
     ELSE IF p \in {"DONO", "OPERADOR"} /\ loja = 0 THEN [r |-> "ValueError", d |-> d]
     ELSE IF UsuarioExiste(d, u) \/ ~LojaReferivel(l) THEN [r |-> "IntegrityError", d |-> d]
     ELSE [r |-> "OK", d |-> [d1 EXCEPT !.usuarios[Len(d1.usuarios)].ativo = ativo]]

atualizar_usuario_role_ativo(d, username, role, ativo, loja) ==
  LET u == usuario_normalizado(username)
      p == perfil_normalizado(role)
      l == LojaDoPerfil(p, loja)
  IN IF p \notin Perfis THEN [r |-> "ValueError", d |-> d]
     ELSE IF p \in {"DONO", "OPERADOR"} /\ loja = 0 THEN [r |-> "ValueError", d |-> d]
     ELSE IF UsuarioExiste(d, u) /\ ~LojaReferivel(l) THEN [r |-> "IntegrityError", d |-> d]
     ELSE IF ~UsuarioExiste(d, u) THEN [r |-> "ValueError", d |-> d]
     ELSE [r |-> "OK",
           d |-> [d EXCEPT !.usuarios =
                    [i \in DOMAIN @ |-> IF @[i].username = u
                                        THEN [@[i] EXCEPT !.role = p, !.loja = l, !.ativo = ativo]
                                        ELSE @[i]]]]

\* the role and the store a call was given, as the function reads them
PerfilELoja(role, loja) == [role |-> perfil_normalizado(role), loja |-> loja]

web_chamar_criar_usuario ==
  /\ PodeChamar
  /\ \E username \in UsuariosDigitados, role \in PerfisDigitados, senha \in SenhasDigitadas,
        loja \in LojasDigitadas, ativo \in BOOLEAN :
       Executa("criar_usuario", loja, 0, PerfilELoja(role, loja),
               criar_usuario(db, username, role, senha, loja, ativo))

web_chamar_atualizar_usuario_role_ativo ==
  /\ PodeChamar
  /\ \E username \in UsuariosDigitados, role \in PerfisDigitados, loja \in LojasDigitadas,
        ativo \in BOOLEAN :
       Executa("atualizar_usuario_role_ativo", loja, 0, PerfilELoja(role, loja),
               atualizar_usuario_role_ativo(db, username, role, ativo, loja))

NextUsuarios == web_chamar_criar_usuario \/ web_chamar_atualizar_usuario_role_ativo

\* inicializar_usuarios has seeded the administrator
InitUsuarios ==
  /\ db = BancoInicial
  /\ lock = Livre
  /\ tx = [t \in Terminais |-> SemTx]
  /\ pc = [t \in Terminais |-> "ocioso"]
  /\ loc = [t \in Terminais |-> LocVazio]
  /\ res = [t \in Terminais |-> ResVazio]
  /\ chamadas = 0

SpecUsuarios == InitUsuarios /\ [][NextUsuarios]_vars

(***************************************************************************)
(* Properties                                                              *)
(***************************************************************************)
\* units of product p on the committed sale lines
QtdNaVenda(venda, p) ==
  IF venda.loja = p[1]
  THEN SomaSeq([i \in DOMAIN venda.itens |->
                  IF venda.itens[i].codigo = p[2] THEN venda.itens[i].qtd ELSE 0])
  ELSE 0

Vendido(d, p) == SomaSeq([v \in DOMAIN d.vend |-> QtdNaVenda(d.vend[v], p)])

Ociosos == \A t \in Terminais : pc[t] = "ocioso"

\* C1: under any interleaving of web settlements that pass baixar_estoque=True,
\* the committed sale lines of a product never add up to more than the quantity
\* it started with.
C1_SemSobrevenda == \A p \in Produtos : Vendido(db, p) <= QtdInicial

\* a product sold out to its last unit and a settlement turned down for stock
C1_Witness ==
  \E p \in Produtos, t \in Terminais :
    /\ Vendido(db, p) = QtdInicial
    /\ db.prod[p].quantidade = 0
    /\ res[t].op = "venda" /\ res[t].r = "ESTOQUE" /\ res[t].loja = p[1]

\* C2: of two core_db settlements that together ask for more than a product has,
\* only one commits a sale: no two committed sales take, together, more units
\* of a product than it started with.
C2_UmaSoLiquidacao ==
  \A c \in Codigos : \A v, w \in DOMAIN db.vend :
    v # w => QtdNaVenda(db.vend[v], <<LojaUnica, c>>)
             + QtdNaVenda(db.vend[w], <<LojaUnica, c>>) <= QtdInicial

\* C3: in every reachable state every store has at most one session ABERTO.
C3_UmCaixaAberto ==
  \A loja \in Lojas :
    Cardinality({s \in DOMAIN db.sess : db.sess[s].loja = loja /\ db.sess[s].status = "ABERTO"}) <= 1

\* C4: a web call changes the committed database only in the step that ends it
\* with success; a settlement that fails (session check, stock of any line)
\* leaves no header, no line and no stock decrement behind.
C4_TudoOuNada ==
  [][db' # db =>
       \E t \in Terminais : pc[t] # "ocioso" /\ pc'[t] = "ocioso" /\ res'[t].r = "OK"]_vars

\* a settlement failed on its second or a later line, after the lines before it
\* were decremented in its transaction, and the database shows nothing of it
C4_Witness ==
  \E t \in Terminais :
    /\ res[t].op = "venda" /\ res[t].r = "ESTOQUE" /\ res[t].linha >= 2
    /\ pc[t] = "ocioso"
    /\ db.vend = <<>>
    /\ \A p \in Produtos : db.prod[p].quantidade = QtdInicial

\* C5: in core_db.registrar_venda the sale, its lines and its stock decrements
\* take effect together or not at all: once no call is running, what is on hand
\* plus what the committed sales sold is what the product started with.
C5_VendaEBaixaJuntas ==
  Ociosos => \A c \in Codigos :
               db.prod[<<LojaUnica, c>>].quantidade + Vendido(db, <<LojaUnica, c>>) = QtdInicial

\* C6: in every observable state, for every product, the quantity on hand plus
\* the quantity on committed sale lines is the initial quantity, whether or not
\* the caller of registrar_venda_completa_db passed baixar_estoque.
C6_EstoqueMaisVendido ==
  \A p \in Produtos : db.prod[p].quantidade + Vendido(db, p) = QtdInicial

\* C7: a web settlement whose session is, when the call reads it, closed, of
\* another store or missing fails with the session error and writes nothing.
C7_SessaoFechadaRecusa ==
  [][\A t \in Terminais :
       (/\ pc[t] = "web_venda_select"
        /\ pc'[t] # "web_venda_select"
        /\ ~(/\ loc[t].sid \in DOMAIN db.sess
             /\ db.sess[loc[t].sid].loja = loc[t].loja
             /\ db.sess[loc[t].sid].status = "ABERTO"))
       => /\ pc'[t] = "ocioso"
          /\ res'[t].op = "venda" /\ res'[t].r = "SESSAO"
          /\ db' = db]_vars

\* a settlement named a session of its store that fechar_caixa_db had closed,
\* and was refused
C7_Witness ==
  \E t \in Terminais :
    /\ res[t].op = "venda" /\ res[t].r = "SESSAO"
    /\ res[t].sid \in DOMAIN db.sess
    /\ db.sess[res[t].sid].loja = res[t].loja
    /\ db.sess[res[t].sid].status = "FECHADO"
    /\ db.vend = <<>>

\* C8: under any interleaving of web settlements and closes, every sale row is
\* committed while its session is ABERTO.
C8_VendaSoEmCaixaAberto ==
  [][\A v \in DOMAIN db'.vend :
       v \notin DOMAIN db.vend =>
         /\ db'.vend[v].sessao_id \in DOMAIN db.sess
         /\ db.sess[db'.vend[v].sessao_id].status = "ABERTO"]_vars

\* C9: core_db.registrar_venda creates no sale row for a session that is closed
\* or does not exist.
C9_SemVendaSemCaixa ==
  [][Len(db'.vend) > Len(db.vend) =>
       LET sid == db'.vend[Len(db'.vend)].sessao_id
       IN sid \in DOMAIN db'.sess /\ db'.sess[sid].status = "ABERTO"]_vars

\* C10: every FECHADO session stores saldo_final_sistema = saldo_inicial + the
\* totals of the FINALIZADA sales attached to it.
C10_SaldoFinalSistema ==
  \A s \in DOMAIN db.sess :
    db.sess[s].status = "FECHADO" =>
      db.sess[s].saldo_final_sistema =
        db.sess[s].saldo_inicial
        + SomaSeq([v \in DOMAIN db.vend |->
                     IF db.vend[v].sessao_id = s /\ db.vend[v].status = "FINALIZADA"
                     THEN db.vend[v].total ELSE 0])

\* the guarded UPDATE of terminal t's fechar_caixa_db runs in this step
FechaAgora(t) == pc[t] = "web_fechar_update" /\ pc'[t] = "ocioso"

\* C11: of the closes of one session only the first to reach its guarded UPDATE
\* succeeds; a close that reaches it when the session is already FECHADO raises
\* the session-not-open error and leaves the stored closing values as the
\* successful call wrote them.
C11_FechamentoDuplo ==
  [][\A t \in Terminais :
       FechaAgora(t)
       => /\ (loc[t].sid \in DOMAIN db.sess /\ db.sess[loc[t].sid].status = "FECHADO")
             => /\ res'[t].op = "fechar" /\ res'[t].r = "NAO_ABERTA"
                /\ db'.sess = db.sess
          /\ res'[t].r = "OK"
             => \A u \in Terminais \ {t} :
                  ~(/\ res[u].op = "fechar" /\ res[u].r = "OK"
                    /\ res[u].sid = loc[t].sid /\ res[u].loja = loc[t].loja)]_vars

\* one terminal closed the session; the other, which declared another amount,
\* holds the write lock and is about to run its UPDATE on the closed session
C11_Witness ==
  \E t, u \in Terminais :
    /\ t # u
    /\ res[t].op = "fechar" /\ res[t].r = "OK"
    /\ pc[u] = "web_fechar_update"
    /\ loc[u].sid = res[t].sid /\ loc[u].loja = res[t].loja
    /\ db.sess[res[t].sid].status = "FECHADO"
    /\ db.sess[res[t].sid].saldo_final_informado # loc[u].saldo

\* terminal t starts abrir_caixa_db in this step
AbreAgora(t) ==
  /\ pc[t] = "ocioso" /\ chamadas' # chamadas
  /\ \/ pc'[t] = "web_abrir_begin"
     \/ pc'[t] = "ocioso" /\ res'[t].op = "abrir" /\ res'[t] # res[t]

\* C13: abrir_caixa_db called while the store has a session ABERTO goes no further
\* than its check: it raises the already-open error with the id of an open
\* session of that store, inserts nothing and leaves every session as it was.
C13_AbrirComCaixaAberto ==
  [][\A t \in Terminais :
       AbreAgora(t)
       => /\ db' = db
          /\ pc'[t] = "web_abrir_begin"
             => ~\E s \in DOMAIN db.sess :
                   db.sess[s].loja = loc'[t].loja /\ db.sess[s].status = "ABERTO"
          /\ pc'[t] = "ocioso"
             => /\ res'[t].r = "JA_ABERTO"
                /\ res'[t].sid \in DOMAIN db.sess
                /\ db.sess[res'[t].sid].loja = res'[t].loja
                /\ db.sess[res'[t].sid].status = "ABERTO"]_vars

\* a terminal was refused with the id of the open session, which is still the
\* store's only session and still ABERTO
C13_Witness ==
  \E t \in Terminais :
    /\ res[t].op = "abrir" /\ res[t].r = "JA_ABERTO"
    /\ res[t].sid = 1 /\ Len(db.sess) = 1
    /\ db.sess[1].status = "ABERTO" /\ db.sess[1].loja = res[t].loja

\* C14: fechar_caixa_db whose UPDATE finds the named session FECHADO, missing or
\* of another store than loja_id raises the session-not-open error and leaves
\* every session row unchanged.
C14_FecharInvalido ==
  [][\A t \in Terminais :
       (/\ FechaAgora(t)
        /\ \/ loc[t].sid \notin DOMAIN db.sess
           \/ db.sess[loc[t].sid].loja # loc[t].loja
           \/ db.sess[loc[t].sid].status # "ABERTO")
       => /\ res'[t].r = "NAO_ABERTA"
          /\ db' = db]_vars

\* a close that named the open session of store 1 with the loja_id of another
\* store was refused, and the session is still ABERTO
C14_Witness ==
  \E t \in Terminais :
    /\ res[t].op = "fechar" /\ res[t].r = "NAO_ABERTA"
    /\ res[t].sid \in DOMAIN db.sess
    /\ db.sess[res[t].sid].loja # res[t].loja
    /\ db.sess[res[t].sid].status = "ABERTO"

\* C16: fechar_caixa_db whose UPDATE finds the session ABERTO succeeds whatever
\* the declared amount and the variance: the row becomes FECHADO with the
\* computed and declared amounts the call holds (the ones it returns) and
\* diferenca = saldo_final_informado - saldo_final_sistema.
C16_FecharGravaDiferenca ==
  [][\A t \in Terminais :
       (/\ FechaAgora(t)
        /\ loc[t].sid \in DOMAIN db.sess
        /\ db.sess[loc[t].sid].loja = loc[t].loja
        /\ db.sess[loc[t].sid].status = "ABERTO")
       => /\ res'[t].r = "OK"
          /\ db'.sess[loc[t].sid].status = "FECHADO"
          /\ db'.sess[loc[t].sid].saldo_final_sistema = loc[t].sistema
          /\ db'.sess[loc[t].sid].saldo_final_informado = loc[t].saldo
          /\ db'.sess[loc[t].sid].diferenca
               = db'.sess[loc[t].sid].saldo_final_informado
                 - db'.sess[loc[t].sid].saldo_final_sistema]_vars

\* a session closed with a declared amount that differs from the computed one
C16_Witness ==
  \E t \in Terminais, s \in DOMAIN db.sess :
    /\ res[t].op = "fechar" /\ res[t].r = "OK" /\ res[t].sid = s
    /\ db.sess[s].status = "FECHADO"
    /\ db.sess[s].diferenca # 0
    /\ db.sess[s].saldo_final_informado # db.sess[s].saldo_final_sistema

\* C15: no step removes a session row or changes a row that is FECHADO, so a
\* closed session is never ABERTO again and keeps its closing values; the only
\* rows that become ABERTO are rows appended to the table.
C15_FechadoNaoReabre ==
  [][/\ Len(db'.sess) >= Len(db.sess)
     /\ \A s \in DOMAIN db.sess :
          /\ db.sess[s].status = "FECHADO" => db'.sess[s] = db.sess[s]
          /\ db'.sess[s].status = "ABERTO" => db.sess[s].status = "ABERTO"]_vars

\* the till of a store was closed and opened again: the closed row kept its
\* values and the open one is a new row
C15_Witness ==
  \E s, r \in DOMAIN db.sess :
    /\ s < r /\ db.sess[s].loja = db.sess[r].loja
    /\ db.sess[s].status = "FECHADO" /\ db.sess[r].status = "ABERTO"
    /\ db.sess[s].diferenca = db.sess[s].saldo_final_informado - db.sess[s].saldo_final_sistema
    /\ \E t \in Terminais : res[t].op = "abrir" /\ res[t].r = "OK" /\ res[t].sid = r

\* the register's button is pressed in this step
Clica == NaTela /\ ~NaTela'

\* C12: every sale row written by a checkout button (FINALIZAR of pdv_web_full.py,
\* "Finalizar venda" of web_pdv.py through core_db.registrar_venda, finalizar_venda
\* of pdv.py) has subtotal = the sum of price times quantity over its lines and
\* total = subtotal - discount, or 0 when that is negative; a cash row has
\* tendered >= total and change = tendered - total.
C12_TotalDaVenda ==
  \A v \in DOMAIN db.vend :
    LET row == db.vend[v]
    IN /\ row.subtotal = Subtotal(row.itens)
       /\ row.total = IF row.subtotal - row.desconto > 0 THEN row.subtotal - row.desconto ELSE 0
       /\ row.forma_pagamento = "DINHEIRO"
            => row.recebido >= row.total /\ row.troco = row.recebido - row.total

\* a cash sale of two lines with a discount and change was written
C12_Witness ==
  /\ res[Balcao].r = "OK"
  /\ \E v \in DOMAIN db.vend :
       /\ db.vend[v].forma_pagamento = "DINHEIRO"
       /\ Len(db.vend[v].itens) = 2
       /\ db.vend[v].desconto > 0
       /\ db.vend[v].total > 0
       /\ db.vend[v].troco > 0

\* C17: every sale row whose payment method is not cash records tendered 0 and
\* change 0, whatever the tendered field held when the button was pressed.
C17_NaoDinheiroSemRecebido ==
  \A v \in DOMAIN db.vend :
    db.vend[v].forma_pagamento # "DINHEIRO" => db.vend[v].recebido = 0 /\ db.vend[v].troco = 0

\* the discount entered is a number below 0 or above the cart's subtotal
DescontoInvalido(e) ==
  e.desconto.ok /\ (e.desconto.v < 0 \/ e.desconto.v > Subtotal(e.cart))

\* C18: a click on a checkout button with a cart that is not empty and a discount
\* that is negative or greater than the cart's subtotal writes nothing and does
\* not end in a sale.
C18_DescontoInvalidoRecusado ==
  [][(Clica /\ res'[Balcao].entrada.cart # <<>> /\ DescontoInvalido(res'[Balcao].entrada))
       => db' = db /\ res'[Balcao].r # "OK"]_vars

\* payment in cash, the discount entered a number from 0 to the cart's subtotal
\* and the amount tendered a number below the subtotal less the discount
PagaMenos(e) ==
  /\ e.forma = "Dinheiro"
  /\ e.desconto.ok /\ e.recebido.ok
  /\ e.desconto.v >= 0 /\ e.desconto.v <= Subtotal(e.cart)
  /\ e.recebido.v < Subtotal(e.cart) - e.desconto.v

\* C19: a click on a checkout button with payment in cash and a tendered amount
\* below the total after discount leaves every table as it was (no sale, no line,
\* no stock change, the session totals the same) and does not end in a sale; with
\* the till open, a cart that is not empty and every line of it in stock it ends
\* in the insufficient-payment error.
C19_PagamentoInsuficiente ==
  [][(Clica /\ PagaMenos(res'[Balcao].entrada))
       => /\ db' = db
          /\ res'[Balcao].r # "OK"
          /\ (/\ get_sessao_aberta(db, res'[Balcao].loja) # 0
              /\ res'[Balcao].entrada.cart # <<>>
              /\ PrimeiraFalha(EstoqueDaLoja(db, res'[Balcao].loja), res'[Balcao].entrada.cart) = 0)
               => res'[Balcao].r = "PAGAMENTO"]_vars

\* a cash checkout was refused for insufficient payment on a database with an
\* open till, stock of every product and no sale
C19_Witness ==
  /\ res[Balcao].r = "PAGAMENTO"
  /\ get_sessao_aberta(db, LojaUnica) # 0
  /\ db.vend = <<>>
  /\ \A p \in Produtos : db.prod[p].quantidade = QtdInicial

\* C20: a settlement with an empty list of lines writes nothing (no sale header)
\* and does not end in a sale.
C20_CarrinhoVazioRecusado ==
  [][(Clica /\ res'[Balcao].entrada.cart = <<>>) => db' = db /\ res'[Balcao].r # "OK"]_vars

\* C21: a checkout that fails several checks ends with the error of the earliest
\* one in the order empty cart, session not open, invalid discount, insufficient
\* cash payment, insufficient stock; stated on the two cases the order is given
\* for: a cash checkout that is under-paid and over stock ends with the
\* insufficient-payment error, and an empty cart with the till closed ends with
\* the empty-cart error.
C21_OrdemDasVerificacoes ==
  [][(Clica /\ res'[Balcao].op \in {"web_FINALIZAR", "pdv_finalizar_venda"})
       => LET e == res'[Balcao].entrada
              loja == res'[Balcao].loja
          IN /\ (/\ e.cart # <<>> /\ get_sessao_aberta(db, loja) # 0
                 /\ PagaMenos(e)
                 /\ PrimeiraFalha(EstoqueDaLoja(db, loja), e.cart) # 0)
                  => res'[Balcao].r = "PAGAMENTO"
             /\ (e.cart = <<>> /\ get_sessao_aberta(db, loja) = 0)
                  => res'[Balcao].r = "VAZIO"]_vars

\* C22: in every reachable state the quantity of every product is a non-negative
\* integer, under any interleaving of settlements, stock decrements and validated
\* upserts of the three programs.
C22_EstoqueNaoNegativo == \A p \in Produtos : db.prod[p].quantidade \in Nat

\* the register has just made a call of op
Chamou(op) == chamadas' = chamadas + 1 /\ res'[Balcao].op = op

\* C23: upsert_produto fails with the validation error and leaves the catalogue as
\* it was when the sale price is <= 0, the cost is < 0, the quantity is < 0, or the
\* code or the name is empty after trimming; with any other fields it succeeds and
\* the product is in the catalogue.
C23_UpsertValidado ==
  [][Chamou("upsert_produto")
       => LET p == res'[Balcao].entrada
              loja == res'[Balcao].loja
          IN IF \/ p.preco_venda <= 0 \/ p.preco_custo < 0 \/ p.quantidade < 0
                \/ strip(p.codigo) = "" \/ strip(p.nome) = ""
             THEN res'[Balcao].r = "VALIDACAO" /\ db' = db
             ELSE res'[Balcao].r = "OK" /\ db'.prod[<<loja, strip(p.codigo)>>].existe]_vars

\* an upsert with a negative quantity and every other field valid was refused
C23_Witness ==
  /\ res[Balcao].op = "upsert_produto" /\ res[Balcao].r = "VALIDACAO"
  /\ res[Balcao].entrada = Produto("A", "N2", 0, 3, 0 - 1)

\* C24: a valid upsert for (loja, code) leaves that product with exactly the fields
\* given (code and name trimmed), changes no other product of this or another
\* store, and repeating it with the same arguments changes nothing.
C24_UpsertUltimoVence ==
  [][(Chamou("upsert_produto") /\ res'[Balcao].r = "OK")
       => LET p == res'[Balcao].entrada
              loja == res'[Balcao].loja
              chave == <<loja, strip(p.codigo)>>
          IN /\ db'.prod[chave] = [existe |-> TRUE, nome |-> strip(p.nome),
                                    preco_custo |-> p.preco_custo,
                                    preco_venda |-> p.preco_venda,
                                    quantidade |-> p.quantidade]
             /\ \A q \in Produtos \ {chave} : db'.prod[q] = db.prod[q]
             /\ upsert_produto(db', loja, p).d = db']_vars

\* the second call was a valid upsert of store 1's product A, typed with a leading
\* blank, over the row that was there; store 2's product A is as it was
C24_Witness ==
  /\ chamadas = 2
  /\ res[Balcao].op = "upsert_produto" /\ res[Balcao].r = "OK"
  /\ res[Balcao].loja = 1 /\ res[Balcao].entrada = Produto(" A", "N2", 0, 3, 0)
  /\ db.prod[<<2, "A">>] = BancoInicial.prod[<<2, "A">>]

\* C25: after EstoqueFrame.excluir was confirmed for a code, ler_estoque does not
\* return that code, and adding it to a cart next is refused as not found.
C25_ExcluidoNaoVolta ==
  [][/\ Chamou("pdv_excluir") => ~ler_estoque(db')[res'[Balcao].entrada].existe
     /\ (/\ Chamou("pdv_adicionar_ao_carrinho")
         /\ res[Balcao].op = "pdv_excluir"
         /\ res'[Balcao].entrada = res[Balcao].entrada)
          => res'[Balcao].r = "NAO_ENCONTRADO"]_vars

\* the register has just made a call of one of these operations
ChamouUma(ops) == chamadas' = chamadas + 1 /\ res'[Balcao].op \in ops

\* C26: every sale row that is committed, header and lines with the name, price,
\* cost and quantity they were sold at, is the same after a settlement, an opening
\* or closing of a session, a stock decrement, a report, and an upsert or delete of
\* a product.
C26_VendaImutavel ==
  [][ChamouUma({"registrar_venda_completa_db", "abrir_caixa_db", "fechar_caixa_db",
                "upsert_produto", "excluir_produto", "baixar_estoque_por_codigo",
                "totais_sessao", "relatorio_pagamentos_sessao"})
       => \A v \in DOMAIN db.vend : v \in DOMAIN db'.vend /\ db'.vend[v] = db.vend[v]]_vars

\* product A of store 1 has been deleted and the sale of store 1 still has its
\* line of A under the name and the price it was sold at
C26_Witness ==
  /\ res[Balcao].op = "excluir_produto" /\ res[Balcao].r = "OK" /\ res[Balcao].loja = 1
  /\ ~db.prod[<<1, "A">>].existe
  /\ \E v \in DOMAIN db.vend :
       /\ db.vend[v].loja = 1 /\ db.vend[v].status = "FINALIZADA"
       /\ db.vend[v].itens = <<[codigo |-> "A", qtd |-> 1, produto |-> "N1", preco_unit |-> 3,
                                preco_custo |-> 1, total_item |-> 3]>>

\* C27: abrir_caixa_db, fechar_caixa_db, totais_sessao and relatorio_pagamentos_sessao
\* leave every product and every sale row as they were, and fechar_caixa_db leaves
\* every session row other than the one it was called for as it was.
C27_SoAVendaBaixaEstoque ==
  [][ChamouUma({"abrir_caixa_db", "fechar_caixa_db", "totais_sessao",
                "relatorio_pagamentos_sessao"})
       => /\ db'.prod = db.prod
          /\ db'.vend = db.vend
          /\ res'[Balcao].op = "fechar_caixa_db"
               => /\ DOMAIN db'.sess = DOMAIN db.sess
                  /\ \A s \in DOMAIN db.sess :
                       s # res'[Balcao].sid => db'.sess[s] = db.sess[s]
          /\ res'[Balcao].op \in {"totais_sessao", "relatorio_pagamentos_sessao"}
               => db' = db]_vars

\* store 1's session was closed while store 2's session stays open, with the sales
\* of both stores in the ledger
C27_Witness ==
  /\ res[Balcao].op = "fechar_caixa_db" /\ res[Balcao].r = "OK" /\ res[Balcao].loja = 1
  /\ get_sessao_aberta(db, 2) # 0
  /\ \E v \in DOMAIN db.vend : db.vend[v].loja = 1
  /\ \E p \in Produtos : db.prod[p].existe /\ db.prod[p].quantidade = 0

\* the rows of store loja in database d: its products, and its sessions and sales
\* by id
DadosDaLoja(d, loja) ==
  [prod |-> [c \in Codigos |-> d.prod[<<loja, c>>]],
   sess |-> {<<s, d.sess[s]>> : s \in {x \in DOMAIN d.sess : d.sess[x].loja = loja}},
   vend |-> {<<v, d.vend[v]>> : v \in {x \in DOMAIN d.vend : d.vend[x].loja = loja}}]

\* C28: a call of open, close, settle, decrement, upsert or delete made for store S
\* leaves the products, sessions and sales of every other store as they were, and
\* abrir_caixa_db for S succeeds exactly when S itself has no open session.
C28_LojasIsoladas ==
  [][ChamouUma({"abrir_caixa_db", "fechar_caixa_db", "registrar_venda_completa_db",
                "baixar_estoque_por_codigo", "upsert_produto", "excluir_produto"})
       => /\ \A T \in Lojas \ {res'[Balcao].loja} : DadosDaLoja(db', T) = DadosDaLoja(db, T)
          /\ res'[Balcao].op = "abrir_caixa_db"
               => (res'[Balcao].r = "OK" <=> get_sessao_aberta(db, res'[Balcao].loja) = 0)]_vars

\* store 1 opened a session while store 2 has one open and holds product A too
C28_Witness ==
  /\ res[Balcao].op = "abrir_caixa_db" /\ res[Balcao].r = "OK" /\ res[Balcao].loja = 1
  /\ get_sessao_aberta(db, 2) # 0
  /\ db.prod[<<1, "A">>].existe /\ db.prod[<<2, "A">>].existe

\* C30: a zerar_loja(L) that goes through leaves store L without products,
\* sessions and sales, and leaves the users and the rows of every other store as
\* they were; a zerar_loja that raises changes nothing.
C30_ZerarSoALoja ==
  [][ChamouUma({"zerar_loja"})
       => IF res'[Balcao].r = "OK"
          THEN LET L == res'[Balcao].loja
               IN /\ \A c \in Codigos : ~db'.prod[<<L, c>>].existe
                  /\ DadosDaLoja(db', L).sess = {}
                  /\ DadosDaLoja(db', L).vend = {}
                  /\ \A T \in Lojas \ {L} : DadosDaLoja(db', T) = DadosDaLoja(db, T)
                  /\ db'.usuarios = db.usuarios
          ELSE db' = db]_vars

\* store 1, closed with a sale, was reset; store 2 still has its sale, and both
\* operators are still users
C30_Witness ==
  /\ res[Balcao].op = "zerar_loja" /\ res[Balcao].r = "OK" /\ res[Balcao].loja = 1
  /\ db.sess[1] = SessaoApagada /\ db.vend[1] = VendaApagada
  /\ \E v \in DOMAIN db.vend : db.vend[v].loja = 2
  /\ Len(db.usuarios) = 3

\* C29: no step deletes a session that is ABERTO or a sale attached to a session
\* that is ABERTO, whatever zerar_loja, abrir_caixa_db and the settlements of the
\* terminals do in between.
C29_ZerarPoupaCaixaAberto ==
  [][/\ \A s \in DOMAIN db.sess :
          db.sess[s].status = "ABERTO" => db'.sess[s] # SessaoApagada
     /\ \A v \in DOMAIN db.vend :
          (/\ db.vend[v].status = "FINALIZADA"
           /\ db.vend[v].sessao_id \in DOMAIN db.sess
           /\ db.sess[db.vend[v].sessao_id].status = "ABERTO")
            => db'.vend[v] # VendaApagada]_vars

\* C31: in every reachable state no two lines of the pdv_web_full cart have the
\* same code.
C31_UmaLinhaPorCodigo ==
  \A i, j \in DOMAIN loc[Balcao].cart :
    loc[Balcao].cart[i].codigo = loc[Balcao].cart[j].codigo => i = j

\* C32: every call of abrir_caixa_db, fechar_caixa_db and registrar_venda_completa_db
\* that has started returns, with success or with an error, and a terminal whose
\* call has returned holds neither the write lock nor an open transaction.
C32_ChamadaTermina ==
  /\ [](\A t \in Terminais : pc[t] = "ocioso" => (lock # t /\ ~tx[t].aberta))
  /\ \A t \in Terminais : (pc[t] # "ocioso") ~> (pc[t] = "ocioso")

\* a call has ended with the busy error while the other terminal holds the lock,
\* and holds no transaction of its own
C32_Witness ==
  \E t, u \in Terminais :
    /\ t # u /\ pc[t] = "ocioso" /\ res[t].r = "LOCKED"
    /\ lock = u /\ tx[u].aberta /\ ~tx[t].aberta

\* C33: the write-back of a desktop settlement leaves every product that is not in
\* its own cart as the database has it at that moment.
C33_SoOCarrinho ==
  [][\A t \in Terminais :
       (pc[t] = "pdv_escrever" /\ pc'[t] = "pdv_registrar")
         => \A c \in Codigos :
              (\A i \in DOMAIN loc[t].itens : loc[t].itens[i].codigo # c)
                => db'.prod[<<LojaUnica, c>>] = db.prod[<<LojaUnica, c>>]]_vars

\* C34: when fechar_caixa_db closes the session that get_sessao_aberta returns for
\* the store, get_sessao_aberta returns None for the store afterwards, and it
\* returns a session again only by the commit of an abrir_caixa_db.
C34_FechadoAteAbrir ==
  [][/\ \A t \in Terminais :
          (/\ FechaAgora(t) /\ res'[t].r = "OK"
           /\ loc[t].sid = get_sessao_aberta(db, loc[t].loja))
            => get_sessao_aberta(db', loc[t].loja) = 0
     /\ \A loja \in Lojas :
          (get_sessao_aberta(db, loja) = 0 /\ get_sessao_aberta(db', loja) # 0)
            => \E t \in Terminais : pc[t] = "web_abrir_commit" /\ pc'[t] = "ocioso"]_vars

\* C35: after criar_usuario and atualizar_usuario_role_ativo calls every ADMIN has
\* no store and every DONO and OPERADOR has one; a call for a DONO or OPERADOR
\* without store raises, and a call that raises leaves the user table as it was.
C35_PerfilELoja ==
  /\ [](\A i \in DOMAIN db.usuarios :
          /\ db.usuarios[i].role = "ADMIN" => db.usuarios[i].loja = 0
          /\ db.usuarios[i].role \in {"DONO", "OPERADOR"} => db.usuarios[i].loja # 0)
  /\ [][chamadas' # chamadas =>
          /\ (res'[Balcao].entrada.role \in {"DONO", "OPERADOR"} /\ res'[Balcao].entrada.loja = 0)
               => res'[Balcao].r = "ValueError"
          /\ res'[Balcao].r # "OK" => db'.usuarios = db.usuarios]_vars

\* a user that criar_usuario created has been made an administrator by a call that
\* was given a store
C35_Witness ==
  /\ \E i \in DOMAIN db.usuarios :
       db.usuarios[i].username = "bia" /\ db.usuarios[i].role = "ADMIN" /\ db.usuarios[i].loja = 0
  /\ res[Balcao].op = "atualizar_usuario_role_ativo" /\ res[Balcao].r = "OK"
  /\ res[Balcao].entrada.role = "ADMIN" /\ res[Balcao].entrada.loja # 0

\* a decrement has taken the last unit of a product and an upsert has been refused
C22_Witness ==
  /\ \E t \in Terminais : res[t].op \in {"baixar", "venda"} /\ res[t].r = "OK"
  /\ \E t \in Terminais : res[t].op = "upsert" /\ res[t].r = "VALIDACAO"
  /\ \E p \in Produtos : db.prod[p].quantidade = 0
====
